---- MODULE Spec2Model ----
(***************************************************************************)
(* Model of the prompt-construction and continuity engine of the comic     *)
(* authoring tool: the App registry (characters, assets, relationships,    *)
(* pages), the PageCreator component state (scenes, layout, selections),   *)
(* its passive effects, the asynchronous handleGenerate request and the    *)
(* pure prompt compiler / continuation reconciliation.                     *)
(*                                                                         *)
(* React semantics used by the model:                                      *)
(*  - the state updates of one event handler are committed together;       *)
(*  - useEffect callbacks run after that commit, as a separate step        *)
(*    (RunEffects), and always before the next user event is handled;      *)
(*  - an async handler keeps reading the props and state of the render it  *)
(*    was created in (its closure) after every await.                      *)
(***************************************************************************)
EXTENDS Integers, Sequences, FiniteSets, TLC

VARIABLES
    \* App.tsx state
    project, characters, assets, relationships, pages,
    \* App (confirm-modal variant) and Editor state
    confirmModal, continuationContext,
    \* ProjectCreation: the file reads in flight and the outcome of the last
    \* import
    importer,
    \* RelationshipEditor state
    relationshipForm,
    \* PageCreator state
    scenes, selectedLayout, customLayoutConfig, pageMode, colorMode,
    selectedCharIdsForContinuation, selectedAssetIdsForContinuation,
    isLoading, isModalOpen, generatedImages, finalPrompt, finalStory,
    seed, isSeedLocked, pageOutline,
    \* React scheduling: effects whose dependencies changed in the last commit
    effectsPending,
    \* Date.now()
    now,
    \* the in-flight handleGenerate call (its position and its closure), and
    \* the call that the effect on [continuationContext] started while that
    \* one was in flight
    req, overlap,
    \* history: the two most recent Scene Set resizes, the two most recent
    \* prompt compilations, the most recent entity deletion
    \* and the run that produced the candidates on display
    resizeLog, compileLog, deletionLog, continuationLog, synthesisLog

vars == << project, characters, assets, relationships, pages,
           confirmModal, continuationContext, importer, relationshipForm,
           scenes, selectedLayout, customLayoutConfig, pageMode, colorMode,
           selectedCharIdsForContinuation, selectedAssetIdsForContinuation,
           isLoading, isModalOpen, generatedImages, finalPrompt, finalStory,
           seed, isSeedLocked, pageOutline, effectsPending, now, req, overlap,
           resizeLog, compileLog, deletionLog, continuationLog, synthesisLog >>

appVars == << project, characters, assets, relationships, pages >>
layoutVars == << selectedLayout, customLayoutConfig >>
selectionVars == << selectedCharIdsForContinuation, selectedAssetIdsForContinuation >>
outputVars == << isModalOpen, generatedImages, finalPrompt, finalStory >>
seedVars == << seed, isSeedLocked >>
historyVars == << resizeLog, compileLog, deletionLog, continuationLog, synthesisLog >>
formVars == << importer, relationshipForm >>

----------------------------------------------------------------------------
(* Bounds of the model *)

MaxRows == 2
MaxClock == 1
MaxSeed == 1
MaxPages == 3
MaxReads == 2

----------------------------------------------------------------------------
(* Generic sequence helpers (Array.prototype.filter / includes / map) *)

Range(s) == { s[i] : i \in 1..Len(s) }

Includes(s, x) == \E i \in 1..Len(s) : s[i] = x

RECURSIVE SumSeq(_)
SumSeq(s) == IF s = << >> THEN 0 ELSE Head(s) + SumSeq(Tail(s))

RECURSIVE FlatMap(_)
FlatMap(ss) == IF ss = << >> THEN << >> ELSE Head(ss) \o FlatMap(Tail(ss))

RECURSIVE Join(_, _)
Join(ss, sep) ==
    IF ss = << >> THEN << >>
    ELSE IF Len(ss) = 1 THEN Head(ss)
    ELSE Head(ss) \o sep \o Join(Tail(ss), sep)

----------------------------------------------------------------------------
(* types.ts, constants.ts *)

WEBTOON == "webtoon"
PAGE == "page"
ComicFormat == { WEBTOON, PAGE }

SINGLE == "single"
SPREAD == "spread"
PageMode == { SINGLE, SPREAD }

ColorMode == { "color", "bw" }

CAMERA_SHOTS ==
    << "EstablishingShot", "FullShot", "MediumLongShot", "MediumShot",
       "CloseUp", "ExtremeCloseUp", "InsertShot", "PointOfView",
       "OverTheShoulder", "LowAngle", "WormsEyeView", "HighAngle",
       "BirdsEyeView", "DutchAngle", "ReactionShot", "DynamicActionPanel",
       "SequenceShot", "BreakingTheFrame", "SilentPanel" >>

\* id and panelCount of every template, in the order of LAYOUT_TEMPLATES
LAYOUT_TEMPLATES ==
    << [id |-> "single-panel",         panelCount |-> 1],
       [id |-> "2-horizontal",         panelCount |-> 2],
       [id |-> "2-vertical",           panelCount |-> 2],
       [id |-> "3-vertical",           panelCount |-> 3],
       [id |-> "4-grid",               panelCount |-> 4],
       [id |-> "hero-top",             panelCount |-> 3],
       [id |-> "hero-left",            panelCount |-> 3],
       [id |-> "hero-bottom",          panelCount |-> 3],
       [id |-> "top-plus-4-grid",      panelCount |-> 5],
       [id |-> "4-vertical-montage",   panelCount |-> 4],
       [id |-> "2-diagonal",           panelCount |-> 2],
       [id |-> "inset-panel",          panelCount |-> 2],
       [id |-> "borderless-3-montage", panelCount |-> 3],
       [id |-> "center-focus-5-panel", panelCount |-> 5],
       [id |-> "custom",               panelCount |-> 1] >>

TemplateById(tid) ==
    CHOOSE t \in Range(LAYOUT_TEMPLATES) : t.id = tid

\* the column counts offered per row by the custom-layout buttons
ColumnChoices == { 1, 2, 3 }

----------------------------------------------------------------------------
(* Bounded input domains *)

\* templates the model lets the user click (a subset of LAYOUT_TEMPLATES)
TemplateChoices == { "single-panel", "2-vertical", "3-vertical", "custom" }

\* camera shots the model lets the user pick in a panel's select box
ShotChoices == { CAMERA_SHOTS[1], CAMERA_SHOTS[5] }

\* panel descriptions the model lets the user type: empty, blank, a text,
\* a text with a run of two spaces (see the section on text below)
DescriptionChoices ==
    { << >>, << [ws |-> " "] >>, << [text |-> "x"] >>,
      << [text |-> "x"], [ws |-> " "], [ws |-> " "], [text |-> "y"] >> }

CharacterTable ==
    [ c1 |-> [characterId |-> "c1", name |-> "Aria",
              referenceImageUrl |-> "url-c1", corePrompt |-> "knight"],
      c2 |-> [characterId |-> "c2", name |-> "Bram",
              referenceImageUrl |-> "url-c2", corePrompt |-> "rogue"] ]

AssetTable ==
    [ a1 |-> [assetId |-> "a1", name |-> "Sword",
              referenceImageUrl |-> "url-a1", corePrompt |-> "blade"],
      a2 |-> [assetId |-> "a2", name |-> "Map",
              referenceImageUrl |-> "url-a2", corePrompt |-> "parchment"] ]

CharIds == { "c1", "c2" }
AssetIds == { "a1", "a2" }
EntityIds == CharIds \cup AssetIds

\* registries an imported or hand-built project can hold
CharacterLists ==
    { << >>, << CharacterTable.c1 >>,
      << CharacterTable.c1, CharacterTable.c2 >>,
      << CharacterTable.c2, CharacterTable.c1 >> }

AssetLists ==
    { << >>, << AssetTable.a1 >>,
      << AssetTable.a1, AssetTable.a2 >>,
      << AssetTable.a2, AssetTable.a1 >> }

CharIdsOf(cs) == { cs[i].characterId : i \in 1..Len(cs) }
AssetIdsOf(as) == { as[i].assetId : i \in 1..Len(as) }

HasCharacter(cs, id) == \E i \in 1..Len(cs) : cs[i].characterId = id
HasAsset(as, id) == \E i \in 1..Len(as) : as[i].assetId = id

\* Array.prototype.find over the registry
FindCharacter(cs, id) ==
    cs[CHOOSE i \in 1..Len(cs) : cs[i].characterId = id
                                 /\ \A j \in 1..(i-1) : cs[j].characterId # id]
FindAsset(as, id) ==
    as[CHOOSE i \in 1..Len(as) : as[i].assetId = id
                                 /\ \A j \in 1..(i-1) : as[j].assetId # id]

NoRequest == [pc |-> "none"]
NoModal == [isOpen |-> FALSE]
NoPage == [pageId |-> "none"]
NoLog == [kind |-> "none"]
NoProject == [format |-> "none"]
NoImport == [pending |-> {}, outcome |-> "none"]
NoForm == [entity1Id |-> "", entity2Id |-> "", description |-> "", editingId |-> ""]

----------------------------------------------------------------------------
(* PageCreator: layout resolver (finalSelectedLayout) *)

\* the generated description of the custom layout: a header carrying the
\* number of rows, then one sentence per row carrying its 1-based index and
\* its panel count
CustomDescription(config) ==
    << [text |-> "custom-layout-rows", rows |-> Len(config)] >> \o
    [ i \in 1..Len(config) |->
        [text |-> "row-has-panels", row |-> i, count |-> config[i]] ]

\* a resolver that numbers the rows of the custom layout but reports the
\* number of rows as the panel count and as every row's count
FinalSelectedLayoutRowCount(layoutId, config) ==
    IF layoutId # "custom"
    THEN [id |-> layoutId,
          panelCount |-> TemplateById(layoutId).panelCount,
          description |-> << [text |-> "template", id |-> layoutId] >>]
    ELSE [id |-> "custom",
          panelCount |-> Len(config),
          description |->
              << [text |-> "custom-layout-rows", rows |-> Len(config)] >> \o
              [ i \in 1..Len(config) |->
                  [text |-> "row-has-panels", row |-> i, count |-> Len(config)] ]]

FinalSelectedLayout(layoutId, config) ==
    IF layoutId # "custom"
    THEN [id |-> layoutId,
          panelCount |-> TemplateById(layoutId).panelCount,
          description |-> << [text |-> "template", id |-> layoutId] >>]
    ELSE [id |-> "custom",
          panelCount |-> SumSeq(config),
          description |-> CustomDescription(config)]

CurrentLayout == FinalSelectedLayout(selectedLayout, customLayoutConfig)

----------------------------------------------------------------------------
(* PageCreator: Scene Set *)

BlankScene(t, i) ==
    [sceneId |-> [t |-> t, i |-> i],
     description |-> << >>,
     cameraShot |-> CAMERA_SHOTS[1],
     characterIds |-> << >>,
     assetIds |-> << >>]

\* a resize that rebuilds every slot instead of keeping the existing scenes
ResizeScenesAllBlank(currentScenes, panelCount, t) ==
    [ i \in 1..panelCount |-> BlankScene(t, i - 1) ]

\* the updater of the resize effect: Array.from({length: panelCount}, ...)
\* keeps currentScenes[i] when it exists and creates a blank scene otherwise
\* (index i is 0-based in the sceneId)
ResizeScenes(currentScenes, panelCount, t) ==
    [ i \in 1..panelCount |->
        IF i <= Len(currentScenes) THEN currentScenes[i]
        ELSE BlankScene(t, i - 1) ]

\* the cleanup effect with the asset filter forgotten
CleanupScenesCharactersOnly(prevScenes, cs, as) ==
    [ i \in 1..Len(prevScenes) |->
        [ prevScenes[i] EXCEPT
            !.characterIds = SelectSeq(@, LAMBDA id : HasCharacter(cs, id)) ] ]

\* the updater of the cleanup effect
CleanupScenes(prevScenes, cs, as) ==
    [ i \in 1..Len(prevScenes) |->
        [ prevScenes[i] EXCEPT
            !.characterIds = SelectSeq(@, LAMBDA id : HasCharacter(cs, id)),
            !.assetIds = SelectSeq(@, LAMBDA id : HasAsset(as, id)) ] ]

CleanupCharSelection(prev, cs) == SelectSeq(prev, LAMBDA id : HasCharacter(cs, id))
CleanupAssetSelection(prev, as) == SelectSeq(prev, LAMBDA id : HasAsset(as, id))

\* toggle of an id in a list: remove when present, append otherwise
ToggleId(list, id) ==
    IF Includes(list, id) THEN SelectSeq(list, LAMBDA x : x # id)
    ELSE Append(list, id)

----------------------------------------------------------------------------
(* Text: a string is a sequence of tokens; SP and NL are whitespace, every *)
(* other token is a fragment of visible text (a fixed sentence of the      *)
(* template or an interpolated value).                                     *)

SP == [ws |-> " "]
NL == [ws |-> "\n"]

\* a fragment of visible text
T(str) == [text |-> str]

IsWs(tok) == "ws" \in DOMAIN tok

\* String.prototype.trim
RECURSIVE TrimLeft(_)
TrimLeft(s) ==
    IF s # << >> /\ IsWs(Head(s)) THEN TrimLeft(Tail(s)) ELSE s

RECURSIVE TrimRight(_)
TrimRight(s) ==
    IF s # << >> /\ IsWs(s[Len(s)]) THEN TrimRight(SubSeq(s, 1, Len(s) - 1)) ELSE s

Trim(s) == TrimRight(TrimLeft(s))

\* String.prototype.replace(/\s+/g, ' ')
RECURSIVE CollapseWhitespace(_)
CollapseWhitespace(s) ==
    IF s = << >> THEN << >>
    ELSE IF IsWs(Head(s))
         THEN << SP >> \o CollapseWhitespace(TrimLeft(s))
         ELSE << Head(s) >> \o CollapseWhitespace(Tail(s))

----------------------------------------------------------------------------
(* PageCreator.buildPrompt *)

IsCharacterItem(item) == "characterId" \in DOMAIN item

ItemId(item) == IF IsCharacterItem(item) THEN item.characterId ELSE item.assetId

AppearingCharIds(currentScenes) ==
    Range(FlatMap([ i \in 1..Len(currentScenes) |-> currentScenes[i].characterIds ]))

AppearingAssetIds(currentScenes) ==
    Range(FlatMap([ i \in 1..Len(currentScenes) |-> currentScenes[i].assetIds ]))

\* the appearing items with the assets ahead of the characters
AllAppearingItemsAssetsFirst(currentScenes, allAvailableCharacters, allAvailableAssets) ==
    SelectSeq(allAvailableAssets,
              LAMBDA a : a.assetId \in AppearingAssetIds(currentScenes))
    \o
    SelectSeq(allAvailableCharacters,
              LAMBDA c : c.characterId \in AppearingCharIds(currentScenes))

\* [...appearingCharacters, ...appearingAssets]
AllAppearingItems(currentScenes, allAvailableCharacters, allAvailableAssets) ==
    SelectSeq(allAvailableCharacters,
              LAMBDA c : c.characterId \in AppearingCharIds(currentScenes))
    \o
    SelectSeq(allAvailableAssets,
              LAMBDA a : a.assetId \in AppearingAssetIds(currentScenes))

\* itemToRefNumMap.get(id): a Map built from [id, index + 1] pairs keeps the
\* last pair of a key; 0 stands for undefined
ItemToRefNum(allAppearingItems, id) ==
    LET hits == { i \in 1..Len(allAppearingItems) : ItemId(allAppearingItems[i]) = id }
    IN  IF hits = {} THEN 0
        ELSE CHOOSE i \in hits : \A j \in hits : j <= i

CharacterSheet(allAppearingItems) ==
    IF Len(allAppearingItems) > 0
    THEN << T("sheet-header"), NL, T("sheet-order-rule"), NL, NL >> \o
         FlatMap([ i \in 1..Len(allAppearingItems) |->
            << [text |-> "sheet-entry", ref |-> i,
                type |-> IF IsCharacterItem(allAppearingItems[i])
                         THEN "character" ELSE "item",
                name |-> allAppearingItems[i].name],
               NL,
               [text |-> "core-description",
                corePrompt |-> allAppearingItems[i].corePrompt],
               NL, NL >> ]) \o
         << T("sheet-must-use-reference-rule") >>
    ELSE << T("no-reference-provided") >>

IsSpread(currentProject, currentPageMode) ==
    currentProject.format = PAGE /\ currentPageMode = SPREAD

AspectRatioInstruction(currentProject, currentPageMode) ==
    IF IsSpread(currentProject, currentPageMode)
    THEN [text |-> "aspect", orientation |-> "LANDSCAPE", strictRatio |-> "4:3"]
    ELSE [text |-> "aspect", orientation |-> "PORTRAIT", strictRatio |-> "2:3"]

MainInstruction(currentProject, currentPageMode) ==
    IF currentProject.format = PAGE
    THEN IF IsSpread(currentProject, currentPageMode)
         THEN [text |-> "task", framing |-> "double-page-spread"]
         ELSE [text |-> "task", framing |-> "comic-page"]
    ELSE [text |-> "task", framing |-> "webtoon-strip"]

ColorInstruction(currentColorMode) ==
    IF currentColorMode = "bw"
    THEN [text |-> "color", requirement |-> "monochrome"]
    ELSE [text |-> "color", requirement |-> "full-color"]

\* the entities of one scene that resolve in the registry, characters first,
\* each kind in the order of the scene's own list
SceneItems(scene, allAvailableCharacters, allAvailableAssets) ==
    [chars |->
        LET found == SelectSeq(scene.characterIds,
                               LAMBDA id : HasCharacter(allAvailableCharacters, id))
        IN  [ i \in 1..Len(found) |-> FindCharacter(allAvailableCharacters, found[i]) ],
     assets |->
        LET found == SelectSeq(scene.assetIds,
                               LAMBDA id : HasAsset(allAvailableAssets, id))
        IN  [ i \in 1..Len(found) |-> FindAsset(allAvailableAssets, found[i]) ] ]

AppearanceInstruction(scene, allAvailableCharacters, allAvailableAssets, allAppearingItems) ==
    LET si == SceneItems(scene, allAvailableCharacters, allAvailableAssets)
        sceneItems == si.chars \o si.assets
        typeLabel == IF Len(si.chars) > 0 /\ Len(si.assets) > 0 THEN "character/prop"
                     ELSE IF Len(si.chars) > 0 THEN "character" ELSE "prop"
    IN  IF Len(sceneItems) > 0
        THEN << SP, [text |-> "appearing", label |-> typeLabel], SP >> \o
             Join([ i \in 1..Len(sceneItems) |->
                     << [text |-> "appears", name |-> sceneItems[i].name,
                         ref |-> ItemToRefNum(allAppearingItems, ItemId(sceneItems[i]))] >> ],
                  << T(","), SP >>) \o
             << T("]") >>
        ELSE << >>

PanelContentDescriptions(currentScenes, allAvailableCharacters, allAvailableAssets) ==
    LET items == AllAppearingItems(currentScenes, allAvailableCharacters, allAvailableAssets)
    IN  Join([ i \in 1..Len(currentScenes) |->
                << [text |-> "panel", index |-> i,
                    cameraShot |-> currentScenes[i].cameraShot], SP >> \o
                currentScenes[i].description \o
                AppearanceInstruction(currentScenes[i], allAvailableCharacters,
                                      allAvailableAssets, items) ],
             << NL >>)

\* a compiler that writes the seed of the component into the style line
BuildPromptWithSeed(currentLayout, currentScenes, allAvailableCharacters, allAvailableAssets, currentProject, currentPageMode, currentColorMode) ==
    << [text |-> "style", stylePrompt |-> project.stylePrompt, seed |-> seed] >> \o
    PanelContentDescriptions(currentScenes, allAvailableCharacters, allAvailableAssets)

\* the style line reads the component's project prop, not the currentProject
\* argument
BuildPrompt(currentLayout, currentScenes, allAvailableCharacters, allAvailableAssets, currentProject, currentPageMode, currentColorMode) ==
    LET items == AllAppearingItems(currentScenes, allAvailableCharacters, allAvailableAssets)
    IN  CollapseWhitespace(Trim(
          << NL, SP, AspectRatioInstruction(currentProject, currentPageMode), NL, SP, NL, SP >> \o
          CharacterSheet(items) \o
          << NL, SP, NL, SP, MainInstruction(currentProject, currentPageMode),
             NL, SP, NL, SP,
             [text |-> "style", stylePrompt |-> project.stylePrompt], T("."), SP,
             ColorInstruction(currentColorMode),
             NL, NL, SP, T("no-text-blank-bubbles-directive"),
             NL, SP, NL, SP,
             [text |-> "layout", panelCount |-> currentLayout.panelCount], SP >> \o
          currentLayout.description \o
          << NL, SP, NL, SP, T("panel-contents"), NL, SP >> \o
          PanelContentDescriptions(currentScenes, allAvailableCharacters, allAvailableAssets) \o
          << NL, SP, NL, SP, T("final-check"), NL, SP >> ))

\* scenesForGeneration.map(s => s.description).join(' ').trim()
CurrentStory(scenesForGeneration) ==
    Trim(Join([ i \in 1..Len(scenesForGeneration) |-> scenesForGeneration[i].description ],
              << SP >>))

\* scenesForGeneration.map((s, i) => `panel i+1: ${s.description}`).join('\n\n')
FullStoryText(scenesForGeneration) ==
    Join([ i \in 1..Len(scenesForGeneration) |->
            << [text |-> "story-panel", index |-> i], SP >> \o
            scenesForGeneration[i].description ],
         << NL, NL >>)

\* a gathering that attaches the image of every registered character
ReferenceItemsAllCharacters(scenesForGeneration, cs, as) ==
    LET appearingAssetIds == Range(FlatMap([ i \in 1..Len(scenesForGeneration) |->
                                              scenesForGeneration[i].assetIds ]))
    IN  cs \o SelectSeq(as, LAMBDA a : a.assetId \in appearingAssetIds)

\* the reference gathering of handleGenerate: the items whose images are
\* encoded, in order
ReferenceItems(scenesForGeneration, cs, as) ==
    LET appearingCharIds == Range(FlatMap([ i \in 1..Len(scenesForGeneration) |->
                                             scenesForGeneration[i].characterIds ]))
        appearingAssetIds == Range(FlatMap([ i \in 1..Len(scenesForGeneration) |->
                                              scenesForGeneration[i].assetIds ]))
    IN  SelectSeq(cs, LAMBDA c : c.characterId \in appearingCharIds) \o
        SelectSeq(as, LAMBDA a : a.assetId \in appearingAssetIds)

\* utils.toBase64FromUrl: the PNG encoding of the image behind a URL
ToBase64FromUrl(url) == [mimeType |-> "image/png", data |-> << "png-of", url >>]

----------------------------------------------------------------------------
(* geminiService.generateStoryContinuation: reconciliation of the raw       *)
(* backend response                                                        *)

\* a lookup that passes an unknown name on as if it were an id
CharNameToIdKeepUnknown(allCharacters, name) ==
    LET hits == { i \in 1..Len(allCharacters) : allCharacters[i].name = name }
    IN  IF hits = {} THEN name
        ELSE allCharacters[CHOOSE i \in hits : \A j \in hits : j <= i].characterId

\* charNameToId.get(name): a Map built from [name, id] pairs keeps the last
\* pair of a name; "" stands for undefined
CharNameToId(allCharacters, name) ==
    LET hits == { i \in 1..Len(allCharacters) : allCharacters[i].name = name }
    IN  IF hits = {} THEN ""
        ELSE allCharacters[CHOOSE i \in hits : \A j \in hits : j <= i].characterId

\* the character pool announced to the backend in the request text
CharacterPool(allCharacters, mainCharacters) ==
    IF Len(mainCharacters) > 0 THEN mainCharacters ELSE allCharacters

\* a continuation whose failure branch writes the fallback narrative into
\* every panel
GenerateStoryContinuationFallbackEverywhere(panelCount, availableCameraShots, allCharacters, initialScenes, mainCharacters, outcome) ==
    [ i \in 1..panelCount |->
        IF outcome.ok /\ i <= Len(outcome.panel_details)
        THEN LET detail == outcome.panel_details[i]
                 ids == [ k \in 1..Len(detail.characters) |->
                            CharNameToId(allCharacters, detail.characters[k]) ]
             IN  [description |-> detail.description,
                  cameraShot |-> detail.camera_shot,
                  characterIds |-> SelectSeq(ids, LAMBDA id : id # "")]
        ELSE [description |-> IF outcome.ok THEN << >>
                              ELSE << T("fallback-hero-paused") >>,
              cameraShot |-> availableCameraShots[1],
              characterIds |-> << >>] ]

\* outcome.ok = FALSE: the backend call threw, the text was not JSON, or the
\* JSON had no panel_details array; otherwise outcome.panel_details is the
\* parsed array
GenerateStoryContinuation(panelCount, availableCameraShots, allCharacters, initialScenes, mainCharacters, outcome) ==
    IF outcome.ok
    THEN [ i \in 1..panelCount |->
            IF i > Len(outcome.panel_details)
            THEN [description |-> << >>,
                  cameraShot |-> availableCameraShots[1],
                  characterIds |-> << >>]
            ELSE LET detail == outcome.panel_details[i]
                     ids == [ k \in 1..Len(detail.characters) |->
                                CharNameToId(allCharacters, detail.characters[k]) ]
                 IN  [description |-> detail.description,
                      cameraShot |-> detail.camera_shot,
                      characterIds |-> SelectSeq(ids, LAMBDA id : id # "")] ]
    ELSE [ i \in 1..panelCount |->
            [description |-> IF i = 1 THEN << T("fallback-hero-paused") >> ELSE << >>,
             cameraShot |-> availableCameraShots[1],
             characterIds |-> << >>] ]

\* a merge that stores the camera shot of the response as it came
MergeContinuationRawShot(closureScenes, continuationDetails, panelCount) ==
    [ i \in 1..Len(closureScenes) |->
        IF i > Len(continuationDetails) THEN closureScenes[i]
        ELSE [ closureScenes[i] EXCEPT
                 !.description = continuationDetails[i].description,
                 !.cameraShot = continuationDetails[i].cameraShot,
                 !.characterIds = continuationDetails[i].characterIds ] ]

\* handleGenerate, the merge of continuationDetails into the scenes of the
\* closure
MergeContinuation(closureScenes, continuationDetails, panelCount) ==
    IF Len(continuationDetails) >= panelCount
    THEN [ i \in 1..Len(closureScenes) |->
            IF i > Len(continuationDetails) THEN closureScenes[i]
            ELSE LET detail == continuationDetails[i]
                 IN  [ closureScenes[i] EXCEPT
                        !.description = detail.description,
                        !.cameraShot = IF Includes(CAMERA_SHOTS, detail.cameraShot)
                                       THEN detail.cameraShot ELSE @,
                        !.characterIds = detail.characterIds ] ]
    ELSE [ i \in 1..Len(closureScenes) |->
            [ closureScenes[i] EXCEPT
                !.description =
                    IF i = 1
                    THEN Join([ k \in 1..Len(continuationDetails) |->
                                  continuationDetails[k].description ], << SP >>)
                    ELSE << >> ] ]

----------------------------------------------------------------------------
(* Scheduling *)

\* a user event is handled only after the effects of the last commit ran;
\* an open modal covers the rest of the page
UserCanAct ==
    /\ effectsPending = {}
    /\ ~confirmModal.isOpen
    /\ ~isModalOpen

NoResizeLog == << NoLog, NoLog >>

----------------------------------------------------------------------------
(* App.tsx: entity registry *)

RemoveRelationshipsOf(rels, id) ==
    SelectSeq(rels, LAMBDA r : r.entity1Id # id /\ r.entity2Id # id)

IsReferencedByRelationship(id) ==
    \E k \in 1..Len(relationships) :
        relationships[k].entity1Id = id \/ relationships[k].entity2Id = id

IsAssignedToScene(id) ==
    \E i \in 1..Len(scenes) :
        Includes(scenes[i].characterIds, id) \/ Includes(scenes[i].assetIds, id)

\* history of a deletion: the deleted id and what referenced it
DeletionRecord(id) ==
    [kind |-> "delete", id |-> id,
     hadRelationship |-> IsReferencedByRelationship(id),
     wasAssigned |-> IsAssignedToScene(id)]

\* handleDeleteCharacter (App.tsx), called after window.confirm
HandleDeleteCharacter(characterId) ==
    /\ UserCanAct
    /\ HasCharacter(characters, characterId)
    /\ characters' = SelectSeq(characters, LAMBDA c : c.characterId # characterId)
    /\ relationships' = RemoveRelationshipsOf(relationships, characterId)
    /\ effectsPending' = effectsPending \cup {"registry"}
    /\ deletionLog' = DeletionRecord(characterId)
    /\ UNCHANGED continuationLog
    /\ UNCHANGED << project, assets, pages, confirmModal, continuationContext,
                    scenes, layoutVars, pageMode, colorMode, selectionVars,
                    isLoading, outputVars, seedVars, now, pageOutline, formVars, req, resizeLog, compileLog,
                    overlap, synthesisLog >>

\* handleDeleteAsset (App.tsx)
HandleDeleteAsset(assetId) ==
    /\ UserCanAct
    /\ HasAsset(assets, assetId)
    /\ assets' = SelectSeq(assets, LAMBDA a : a.assetId # assetId)
    /\ relationships' = RemoveRelationshipsOf(relationships, assetId)
    /\ effectsPending' = effectsPending \cup {"registry"}
    /\ deletionLog' = DeletionRecord(assetId)
    /\ UNCHANGED continuationLog
    /\ UNCHANGED << project, characters, pages, confirmModal, continuationContext,
                    scenes, layoutVars, pageMode, colorMode, selectionVars,
                    isLoading, outputVars, seedVars, now, pageOutline, formVars, req, resizeLog, compileLog,
                    overlap, synthesisLog >>

\* the confirm-modal variant of handleDeleteCharacter / handleDeleteAsset:
\* the handler only opens the confirmation modal
RequestDelete(kind, id) ==
    /\ UserCanAct
    /\ IF kind = "character" THEN HasCharacter(characters, id) ELSE HasAsset(assets, id)
    /\ confirmModal' = [isOpen |-> TRUE, kind |-> kind, id |-> id]
    /\ UNCHANGED << appVars, continuationContext, scenes, layoutVars, pageMode,
                    colorMode, selectionVars, isLoading, outputVars, seedVars,
                    effectsPending, now, pageOutline, formVars, req, historyVars,
                    overlap >>

\* confirmModal.onConfirm
ConfirmDelete ==
    /\ effectsPending = {}
    /\ confirmModal.isOpen
    /\ confirmModal.kind \in {"character", "asset"}
    /\ IF confirmModal.kind = "character"
       THEN /\ characters' = SelectSeq(characters,
                                LAMBDA c : c.characterId # confirmModal.id)
            /\ UNCHANGED assets
       ELSE /\ assets' = SelectSeq(assets, LAMBDA a : a.assetId # confirmModal.id)
            /\ UNCHANGED characters
    /\ relationships' = RemoveRelationshipsOf(relationships, confirmModal.id)
    /\ confirmModal' = [confirmModal EXCEPT !.isOpen = FALSE]
    /\ effectsPending' = effectsPending \cup {"registry"}
    /\ deletionLog' = DeletionRecord(confirmModal.id)
    /\ UNCHANGED continuationLog
    /\ UNCHANGED << project, pages, continuationContext, scenes, layoutVars,
                    pageMode, colorMode, selectionVars, isLoading, outputVars,
                    seedVars, now, pageOutline, formVars, req, resizeLog, compileLog,
                    overlap, synthesisLog >>

\* the CANCEL button and the close button of the confirmation modal
CancelDelete ==
    /\ effectsPending = {}
    /\ confirmModal.isOpen
    /\ confirmModal' = [confirmModal EXCEPT !.isOpen = FALSE]
    /\ UNCHANGED << appVars, continuationContext, scenes, layoutVars, pageMode,
                    colorMode, selectionVars, isLoading, outputVars, seedVars,
                    effectsPending, now, pageOutline, formVars, req, historyVars,
                    overlap >>

----------------------------------------------------------------------------
(* RelationshipEditor and App.tsx: relationships *)

\* a relationship between two entities
Rel(rid, e1, e2) == [id |-> rid, entity1Id |-> e1, entity2Id |-> e2]

\* `rel-${Date.now()}`
RelIdAt(t) == << "rel-0", "rel-1", "rel-2", "rel-3", "rel-4" >>[t + 1]

\* the options of the two select boxes: the empty option and the entities
\* of the registry
EntityOptions == {""} \cup CharIdsOf(characters) \cup AssetIdsOf(assets)

\* the condition under which handleSubmit goes on (and the submit button is
\* enabled)
FormIsValid(form) ==
    /\ form.entity1Id # ""
    /\ form.entity2Id # ""
    /\ form.description # ""
    /\ form.entity1Id # form.entity2Id

\* handleAddRelationship (App.tsx)
AddRelationship(rels, rel) == Append(rels, rel)

\* handleUpdateRelationship (App.tsx)
UpdateRelationship(rels, rel) ==
    [ k \in 1..Len(rels) |-> IF rels[k].id = rel.id THEN rel ELSE rels[k] ]

\* a change of one field of the form (the select boxes and the description
\* input)
SetFormField(field, value) ==
    /\ UserCanAct
    /\ field \in {"entity1Id", "entity2Id"} => value \in EntityOptions
    /\ relationshipForm[field] # value
    /\ relationshipForm' = [relationshipForm EXCEPT ![field] = value]
    /\ UNCHANGED << appVars, confirmModal, continuationContext, importer, scenes,
                    layoutVars, pageMode, colorMode, selectionVars, isLoading,
                    outputVars, seedVars, pageOutline, effectsPending, now, req,
                    historyVars,
                    overlap >>

\* handleSubmit of the form, with the reset of the form that follows
HandleSubmit ==
    /\ UserCanAct
    /\ FormIsValid(relationshipForm)
    /\ LET form == relationshipForm
       IN  relationships' =
             IF form.editingId # ""
             THEN UpdateRelationship(relationships,
                                     Rel(form.editingId, form.entity1Id, form.entity2Id))
             ELSE AddRelationship(relationships,
                                  Rel(RelIdAt(now), form.entity1Id, form.entity2Id))
    /\ relationshipForm' = NoForm
    /\ UNCHANGED << project, characters, assets, pages, confirmModal,
                    continuationContext, importer, scenes, layoutVars, pageMode,
                    colorMode, selectionVars, isLoading, outputVars, seedVars,
                    pageOutline, effectsPending, now, req, historyVars,
                    overlap >>

\* handleEdit(relationship): the form takes over the relationship
HandleEdit(rel) ==
    /\ UserCanAct
    /\ Includes(relationships, rel)
    /\ relationshipForm' = [entity1Id |-> rel.entity1Id, entity2Id |-> rel.entity2Id,
                            description |-> "described", editingId |-> rel.id]
    /\ relationshipForm' # relationshipForm
    /\ UNCHANGED << appVars, confirmModal, continuationContext, importer, scenes,
                    layoutVars, pageMode, colorMode, selectionVars, isLoading,
                    outputVars, seedVars, pageOutline, effectsPending, now, req,
                    historyVars,
                    overlap >>

\* handleCancelEdit and the effect on [editingId] that resets the form
HandleCancelEdit ==
    /\ UserCanAct
    /\ relationshipForm.editingId # ""
    /\ relationshipForm' = NoForm
    /\ UNCHANGED << appVars, confirmModal, continuationContext, importer, scenes,
                    layoutVars, pageMode, colorMode, selectionVars, isLoading,
                    outputVars, seedVars, pageOutline, effectsPending, now, req,
                    historyVars,
                    overlap >>

\* handleDeleteRelationship (App.tsx)
HandleDeleteRelationship(relationshipId) ==
    /\ UserCanAct
    /\ \E k \in 1..Len(relationships) : relationships[k].id = relationshipId
    /\ relationships' = SelectSeq(relationships, LAMBDA r : r.id # relationshipId)
    /\ UNCHANGED << project, characters, assets, pages, confirmModal,
                    continuationContext, scenes, layoutVars, pageMode,
                    colorMode, selectionVars, isLoading, outputVars, seedVars,
                    pageOutline, formVars, effectsPending, now, req, historyVars,
                    overlap >>

----------------------------------------------------------------------------
(* ProjectCreation and App.tsx: import of a project file *)

\* a file: whether JSON.parse accepts it, the keys of the parsed object and
\* the values under them
Document(keys, proj, cs, as, pgs, rels) ==
    [parses |-> TRUE, keys |-> keys, project |-> proj, characters |-> cs,
     assets |-> as, pages |-> pgs, relationships |-> rels]

Unparseable ==
    [parses |-> FALSE, keys |-> {}, project |-> NoProject, characters |-> << >>,
     assets |-> << >>, pages |-> << >>, relationships |-> << >>]

\* JSON.parse throws, or data.project is missing
ImportFails(doc) == ~doc.parses \/ "project" \notin doc.keys

\* data[key] || []
ArrayOrEmpty(doc, key) == IF key \in doc.keys THEN doc[key] ELSE << >>

\* the effects of PageCreator that an import makes pending: all of them when
\* the Editor mounts, those on the registry and the format otherwise
EffectsOfImport ==
    IF project = NoProject
    THEN {"registry", "panelCount", "format"}
    ELSE effectsPending \cup {"registry", "format"}

\* handleFileChange: reader.readAsText(file) starts a read
HandleFileChange(doc) ==
    /\ project = NoProject
    /\ doc \notin importer.pending
    /\ Cardinality(importer.pending) < MaxReads
    /\ importer' = [importer EXCEPT !.pending = @ \cup {doc}]
    /\ UNCHANGED << appVars, confirmModal, continuationContext, scenes, layoutVars,
                    pageMode, colorMode, selectionVars, isLoading, outputVars,
                    seedVars, pageOutline, relationshipForm, effectsPending, now, req,
                    historyVars,
                    overlap >>

\* an import that keeps the array it has when the file holds none
HandleImportProjectKeepMissing(doc) ==
    /\ doc \in importer.pending
    /\ IF ImportFails(doc)
       THEN /\ importer' = [pending |-> importer.pending \ {doc}, outcome |-> "alert"]
            /\ UNCHANGED << appVars, effectsPending >>
       ELSE /\ project' = doc.project
            /\ characters' = IF "characters" \in doc.keys THEN doc.characters ELSE characters
            /\ assets' = IF "assets" \in doc.keys THEN doc.assets ELSE assets
            /\ pages' = IF "pages" \in doc.keys THEN doc.pages ELSE pages
            /\ relationships' = IF "relationships" \in doc.keys
                                 THEN doc.relationships ELSE relationships
            /\ effectsPending' = EffectsOfImport
            /\ importer' = [pending |-> importer.pending \ {doc}, outcome |-> "imported"]
    /\ UNCHANGED << confirmModal, continuationContext, scenes, layoutVars,
                    pageMode, colorMode, selectionVars, isLoading, outputVars,
                    seedVars, pageOutline, relationshipForm, now, req, historyVars,
                    overlap >>

\* reader.onload of a read in flight: handleImportProject(content)
HandleImportProject(doc) ==
    /\ doc \in importer.pending
    /\ IF ImportFails(doc)
       THEN /\ importer' = [pending |-> importer.pending \ {doc}, outcome |-> "alert"]
            /\ UNCHANGED << appVars, effectsPending >>
       ELSE /\ project' = doc.project
            /\ characters' = ArrayOrEmpty(doc, "characters")
            /\ assets' = ArrayOrEmpty(doc, "assets")
            /\ pages' = ArrayOrEmpty(doc, "pages")
            /\ relationships' = ArrayOrEmpty(doc, "relationships")
            /\ effectsPending' = EffectsOfImport
            /\ importer' = [pending |-> importer.pending \ {doc}, outcome |-> "imported"]
    /\ UNCHANGED << confirmModal, continuationContext, scenes, layoutVars,
                    pageMode, colorMode, selectionVars, isLoading, outputVars,
                    seedVars, pageOutline, relationshipForm, now, req, historyVars,
                    overlap >>

----------------------------------------------------------------------------
(* App.tsx: page list *)

\* a deletion that leaves the page numbers of the remaining pages alone
DeletePageFromKeepNumbers(pgs, pageId) ==
    SelectSeq(pgs, LAMBDA pg : pg.pageId # pageId)

\* prev.filter(p => p.pageId !== pageId).map((page, index) => ({...page,
\* pageNumber: index + 1}))
DeletePageFrom(pgs, pageId) ==
    LET kept == SelectSeq(pgs, LAMBDA pg : pg.pageId # pageId)
    IN  [ i \in 1..Len(kept) |-> [kept[i] EXCEPT !.pageNumber = i] ]

\* history of a page deletion: the deleted id, its position in the list and
\* the length of the list it was deleted from
PageDeletionRecord(pageId) ==
    [kind |-> "deletePage", id |-> pageId,
     index |-> CHOOSE i \in 1..Len(pages) : pages[i].pageId = pageId,
     count |-> Len(pages)]

\* handleDeletePage (App.tsx), called by the delete button of PageDisplay
HandleDeletePage(pageId) ==
    /\ UserCanAct
    /\ \E i \in 1..Len(pages) : pages[i].pageId = pageId
    /\ pages' = DeletePageFrom(pages, pageId)
    /\ deletionLog' = PageDeletionRecord(pageId)
    /\ UNCHANGED continuationLog
    /\ UNCHANGED << project, characters, assets, relationships, confirmModal,
                    continuationContext, scenes, layoutVars, pageMode, colorMode,
                    selectionVars, isLoading, outputVars, seedVars, effectsPending,
                    now, pageOutline, formVars, req, resizeLog, compileLog,
                    overlap, synthesisLog >>

\* the confirm-modal variant of handleDeletePage: the handler only opens
\* the confirmation modal
RequestDeletePage(pageId) ==
    /\ UserCanAct
    /\ \E i \in 1..Len(pages) : pages[i].pageId = pageId
    /\ confirmModal' = [isOpen |-> TRUE, kind |-> "page", id |-> pageId]
    /\ UNCHANGED << appVars, continuationContext, scenes, layoutVars, pageMode,
                    colorMode, selectionVars, isLoading, outputVars, seedVars,
                    effectsPending, now, pageOutline, formVars, req, historyVars,
                    overlap >>

\* confirmModal.onConfirm of a page deletion
ConfirmDeletePage ==
    /\ effectsPending = {}
    /\ confirmModal.isOpen
    /\ confirmModal.kind = "page"
    /\ pages' = DeletePageFrom(pages, confirmModal.id)
    /\ confirmModal' = [confirmModal EXCEPT !.isOpen = FALSE]
    /\ deletionLog' = PageDeletionRecord(confirmModal.id)
    /\ UNCHANGED continuationLog
    /\ UNCHANGED << project, characters, assets, relationships,
                    continuationContext, scenes, layoutVars, pageMode, colorMode,
                    selectionVars, isLoading, outputVars, seedVars, effectsPending,
                    now, pageOutline, formVars, req, resizeLog, compileLog,
                    overlap, synthesisLog >>

----------------------------------------------------------------------------
(* PageCreator: effects *)

\* the passive effects of PageCreator whose dependencies changed, in source
\* order: cleanup of scenes and selections ([characters, assets]), resize
\* ([finalSelectedLayout.panelCount]), single-page mode for webtoon
\* ([project.format]), selection filtering ([characters, assets])
RunEffects ==
    /\ effectsPending # {}
    /\ LET cleaned == IF "registry" \in effectsPending
                      THEN CleanupScenes(scenes, characters, assets) ELSE scenes
           resized == IF "panelCount" \in effectsPending
                      THEN ResizeScenes(cleaned, CurrentLayout.panelCount, now)
                      ELSE cleaned
       IN  /\ scenes' = resized
           /\ resizeLog' =
                IF "panelCount" \in effectsPending
                THEN << resizeLog[2],
                        [kind |-> "resize", before |-> cleaned,
                         n |-> CurrentLayout.panelCount, t |-> now] >>
                ELSE IF cleaned # scenes THEN NoResizeLog ELSE resizeLog
    /\ IF "registry" \in effectsPending
       THEN /\ selectedCharIdsForContinuation' =
                   CleanupCharSelection(selectedCharIdsForContinuation, characters)
            /\ selectedAssetIdsForContinuation' =
                   CleanupAssetSelection(selectedAssetIdsForContinuation, assets)
       ELSE UNCHANGED selectionVars
    /\ pageMode' = IF "format" \in effectsPending /\ project.format = WEBTOON
                   THEN SINGLE ELSE pageMode
    /\ effectsPending' = {}
    /\ UNCHANGED << appVars, confirmModal, continuationContext, layoutVars,
                    colorMode, isLoading, outputVars, seedVars, now, pageOutline, formVars, req,
                    compileLog, deletionLog, continuationLog,
                    overlap, synthesisLog >>

----------------------------------------------------------------------------
(* PageCreator: layout and scene editing *)

PanelCountChange(newLayoutId, newConfig) ==
    IF FinalSelectedLayout(newLayoutId, newConfig).panelCount # CurrentLayout.panelCount
    THEN {"panelCount"} ELSE {}

\* onClick of a layout template
SelectLayout(templateId) ==
    /\ UserCanAct
    /\ templateId # selectedLayout
    /\ selectedLayout' = templateId
    /\ effectsPending' = effectsPending \cup PanelCountChange(templateId, customLayoutConfig)
    /\ UNCHANGED << appVars, confirmModal, continuationContext, scenes,
                    customLayoutConfig, pageMode, colorMode, selectionVars,
                    isLoading, outputVars, seedVars, now, pageOutline, formVars, req, historyVars,
                    overlap >>

SetCustomLayoutConfig(newConfig) ==
    /\ customLayoutConfig' = newConfig
    /\ effectsPending' = effectsPending \cup PanelCountChange(selectedLayout, newConfig)
    /\ UNCHANGED << appVars, confirmModal, continuationContext, scenes,
                    selectedLayout, pageMode, colorMode, selectionVars,
                    isLoading, outputVars, seedVars, now, pageOutline, formVars, req, historyVars,
                    overlap >>

\* the custom-layout controls are rendered only for the custom template
HandleAddRow ==
    /\ UserCanAct
    /\ selectedLayout = "custom"
    /\ Len(customLayoutConfig) < MaxRows
    /\ SetCustomLayoutConfig(Append(customLayoutConfig, 1))

HandleRemoveRow ==
    /\ UserCanAct
    /\ selectedLayout = "custom"
    /\ SetCustomLayoutConfig(IF Len(customLayoutConfig) > 1
                             THEN SubSeq(customLayoutConfig, 1, Len(customLayoutConfig) - 1)
                             ELSE customLayoutConfig)

HandleColsChange(rowIndex, newCols) ==
    /\ UserCanAct
    /\ selectedLayout = "custom"
    /\ rowIndex \in 1..Len(customLayoutConfig)
    /\ customLayoutConfig[rowIndex] # newCols
    /\ SetCustomLayoutConfig([customLayoutConfig EXCEPT ![rowIndex] = newCols])

\* the panel inputs the page renders: every scene for a fixed template, the
\* scenes of the configured cells for the custom template
RenderedScenes ==
    IF selectedLayout = "custom"
    THEN { i \in 1..Len(scenes) : i <= SumSeq(customLayoutConfig) }
    ELSE 1..Len(scenes)

\* handleSceneChange(sceneId, field, value)
HandleSceneChange(i, field, value) ==
    /\ UserCanAct
    /\ i \in RenderedScenes
    /\ scenes' = [ k \in 1..Len(scenes) |->
                    IF scenes[k].sceneId = scenes[i].sceneId
                    THEN IF field = "description"
                         THEN [scenes[k] EXCEPT !.description = value]
                         ELSE [scenes[k] EXCEPT !.cameraShot = value]
                    ELSE scenes[k] ]
    /\ scenes' # scenes
    /\ resizeLog' = NoResizeLog
    /\ UNCHANGED << appVars, confirmModal, continuationContext, layoutVars,
                    pageMode, colorMode, selectionVars, isLoading, outputVars,
                    seedVars, effectsPending, now, pageOutline, formVars, req, compileLog, deletionLog, continuationLog,
                    overlap, synthesisLog >>

\* handleSceneItemToggle(sceneId, itemId, type)
HandleSceneItemToggle(i, itemId, type) ==
    /\ UserCanAct
    /\ i \in RenderedScenes
    /\ IF type = "character" THEN HasCharacter(characters, itemId)
                             ELSE HasAsset(assets, itemId)
    /\ scenes' = [ k \in 1..Len(scenes) |->
                    IF scenes[k].sceneId = scenes[i].sceneId
                    THEN IF type = "character"
                         THEN [scenes[k] EXCEPT !.characterIds = ToggleId(@, itemId)]
                         ELSE [scenes[k] EXCEPT !.assetIds = ToggleId(@, itemId)]
                    ELSE scenes[k] ]
    /\ resizeLog' = NoResizeLog
    /\ UNCHANGED << appVars, confirmModal, continuationContext, layoutVars,
                    pageMode, colorMode, selectionVars, isLoading, outputVars,
                    seedVars, effectsPending, now, pageOutline, formVars, req, compileLog, deletionLog, continuationLog,
                    overlap, synthesisLog >>

\* toggleContinuationSelection
ToggleContinuationSelection(id, type) ==
    /\ UserCanAct
    /\ IF type = "character"
       THEN /\ HasCharacter(characters, id)
            /\ selectedCharIdsForContinuation' =
                   ToggleId(selectedCharIdsForContinuation, id)
            /\ UNCHANGED selectedAssetIdsForContinuation
       ELSE /\ HasAsset(assets, id)
            /\ selectedAssetIdsForContinuation' =
                   ToggleId(selectedAssetIdsForContinuation, id)
            /\ UNCHANGED selectedCharIdsForContinuation
    /\ UNCHANGED << appVars, confirmModal, continuationContext, scenes, layoutVars,
                    pageMode, colorMode, isLoading, outputVars, seedVars,
                    effectsPending, now, pageOutline, formVars, req, historyVars,
                    overlap >>

\* the SINGLE PAGE / SPREAD buttons, rendered for the page format only; the
\* SPREAD button is disabled while there is no page
SetPageMode(mode) ==
    /\ UserCanAct
    /\ project.format = PAGE
    /\ mode = SPREAD => Len(pages) # 0
    /\ mode # pageMode
    /\ pageMode' = mode
    /\ UNCHANGED << appVars, confirmModal, continuationContext, scenes, layoutVars,
                    colorMode, selectionVars, isLoading, outputVars, seedVars,
                    effectsPending, now, pageOutline, formVars, req, historyVars,
                    overlap >>

\* the COLOR / B & W buttons
SetColorMode(mode) ==
    /\ UserCanAct
    /\ mode # colorMode
    /\ colorMode' = mode
    /\ UNCHANGED << appVars, confirmModal, continuationContext, scenes, layoutVars,
                    pageMode, selectionVars, isLoading, outputVars, seedVars,
                    effectsPending, now, pageOutline, formVars, req, historyVars,
                    overlap >>

\* the passage of time between two calls of Date.now()
Tick ==
    /\ now < MaxClock
    /\ "panelCount" \in effectsPending
    /\ now' = now + 1
    /\ UNCHANGED << appVars, confirmModal, continuationContext, scenes, layoutVars,
                    pageMode, colorMode, selectionVars, isLoading, outputVars,
                    seedVars, pageOutline, formVars, effectsPending, req, historyVars,
                    overlap >>

----------------------------------------------------------------------------
(* PageCreator.handleGenerate: one asynchronous request.  req.pc is the    *)
(* await the call is suspended at; the other fields of req are the props   *)
(* and state of the render the handler was created in, and its locals.     *)

\* one attemptGeneration call of generateComicPanels: the backend calls it
\* has made, how many of them failed, and the string it resolved with
\* ("" while it is pending)
NoSlot == [calls |-> 0, failures |-> 0, result |-> ""]

isStoryEmpty ==
    \A i \in 1..Len(scenes) : Trim(scenes[i].description) = << >>

Closure(isContinuation, seedToUse) ==
    [pc |-> "continuing",
     isContinuation |-> isContinuation,
     scenes |-> scenes,
     characters |-> characters,
     assets |-> assets,
     continuationContext |-> continuationContext,
     finalSelectedLayout |-> CurrentLayout,
     selectedCharIdsForContinuation |-> selectedCharIdsForContinuation,
     project |-> project,
     pageMode |-> pageMode,
     colorMode |-> colorMode,
     seedToUse |-> seedToUse,
     scenesForGeneration |-> scenes,
     prompt |-> << >>,
     imageParts |-> << >>,
     slots |-> << NoSlot, NoSlot >>]

\* a validation that lets every story through
ValidateStoryAlwaysPasses(r, sfg) ==
    /\ isLoading' = (r.isContinuation => isLoading)
    /\ req' = [r EXCEPT !.pc = "gathering", !.scenesForGeneration = sfg]

\* the story validation and what follows it up to the next await
\* (Promise.all over the reference images); r is the closure, sfg the
\* scenesForGeneration.  A call that is not a continuation has called
\* setIsLoading(true) in this same step; a continuation called it before
\* its first await and leaves the flag as it finds it.
ValidateStory(r, sfg) ==
    IF CurrentStory(sfg) = << >>
    THEN /\ isLoading' = FALSE
         /\ req' = NoRequest
    ELSE /\ isLoading' = (r.isContinuation => isLoading)
         /\ req' = [r EXCEPT !.pc = "gathering", !.scenesForGeneration = sfg]

\* history of a continuation request: the state it started in
RequestRecord ==
    [kind |-> "request",
     before |-> [scenes |-> scenes, seed |-> seed,
                 continuationContext |-> continuationContext, pages |-> pages,
                 finalPrompt |-> finalPrompt, finalStory |-> finalStory]]

\* the message the story validation alerts ("" when it alerts nothing)
StoryAlert(sfg) ==
    IF CurrentStory(sfg) = << >> THEN "describe-at-least-one-panel" ELSE ""

\* history of a continuation request: the closure of the call, the raw
\* outcome of the backend it merged and the message it alerted, kept until
\* the request moves on past the gathering of the reference images
ResponseRecord(outcome, alert) ==
    [kind |-> "response", before |-> continuationLog.before,
     request |-> req, outcome |-> outcome, alert |-> alert]

\* handleGenerate(isContinuation) up to its first await.  Seeds is the set
\* of values Math.random may return.
HandleGenerate(isContinuation, Seeds) ==
    /\ UserCanAct
    /\ ~isLoading
    /\ req = NoRequest
    /\ IF isContinuation THEN Len(pages) # 0 ELSE ~isStoryEmpty
    /\ \E s \in Seeds :
         LET seedToUse == IF isSeedLocked THEN seed ELSE s
             r == Closure(isContinuation, seedToUse)
         IN  /\ seed' = seedToUse
             /\ IF isContinuation
                THEN /\ isLoading' = TRUE
                     /\ req' = [r EXCEPT !.pc = IF r.continuationContext = NoPage
                                                THEN "continuing"
                                                ELSE "loadingContext"]
                ELSE ValidateStory(r, scenes)
    /\ continuationLog' = IF isContinuation THEN RequestRecord ELSE continuationLog
    /\ UNCHANGED << appVars, confirmModal, continuationContext, scenes, layoutVars,
                    pageMode, colorMode, selectionVars, outputVars, isSeedLocked,
                    effectsPending, now, pageOutline, formVars, resizeLog, compileLog, deletionLog,
                    overlap, synthesisLog >>

\* handleContinueFromPage(page) of the Editor and the effect of PageCreator
\* on [continuationContext] that follows its commit: handleGenerate(true)
\* up to its first await, in the closure of the render that holds the page.
\* Setting the context to the page it already holds commits nothing and
\* runs no effect.
HandleContinueFromPage(page, Seeds) ==
    /\ UserCanAct
    /\ req = NoRequest
    /\ Includes(pages, page)
    /\ page # continuationContext
    /\ continuationContext' = page
    /\ \E s \in Seeds :
         LET seedToUse == IF isSeedLocked THEN seed ELSE s
         IN  /\ seed' = seedToUse
             /\ req' = [Closure(TRUE, seedToUse) EXCEPT !.pc = "loadingContext",
                                                        !.continuationContext = page]
    /\ isLoading' = TRUE
    /\ continuationLog' = [RequestRecord EXCEPT !.before.continuationContext = page]
    /\ UNCHANGED << appVars, confirmModal, scenes, layoutVars,
                    pageMode, colorMode, selectionVars, outputVars, isSeedLocked,
                    effectsPending, now, pageOutline, formVars, resizeLog, compileLog, deletionLog,
                    overlap, synthesisLog >>

\* toBase64FromUrl(continuationContext.imageUrl) resolves:
\* generateStoryContinuation is called with the story and image of the page
ContextImageLoads ==
    /\ req.pc = "loadingContext"
    /\ req' = [req EXCEPT !.pc = "continuing"]
    /\ UNCHANGED << appVars, confirmModal, continuationContext, scenes, layoutVars,
                    pageMode, colorMode, selectionVars, isLoading, outputVars,
                    seedVars, effectsPending, now, pageOutline, formVars, historyVars,
                    overlap >>

\* toBase64FromUrl(continuationContext.imageUrl) rejects: the catch block
\* and finally
ContextImageFails ==
    /\ req.pc = "loadingContext"
    /\ isLoading' = FALSE
    /\ req' = NoRequest
    /\ continuationLog' = NoLog
    /\ UNCHANGED << appVars, confirmModal, continuationContext, scenes, layoutVars,
                    pageMode, colorMode, selectionVars, outputVars, seedVars,
                    effectsPending, now, pageOutline, formVars, resizeLog, compileLog, deletionLog,
                    overlap, synthesisLog >>

\* the characters passed as mainCharacters
SelectedChars(r) ==
    SelectSeq(r.characters,
              LAMBDA c : Includes(r.selectedCharIdsForContinuation, c.characterId))

ContinuationDetails(r, outcome) ==
    GenerateStoryContinuation(r.finalSelectedLayout.panelCount, CAMERA_SHOTS,
                              r.characters, r.scenes, SelectedChars(r), outcome)

\* generateStoryContinuation resolves: onClearContinuationContext if the
\* closure held a context, the merge into the scenes of the closure,
\* setScenes(newScenes), then the story validation
ContinuationReturns(outcome) ==
    /\ req.pc = "continuing"
    /\ LET newScenes == MergeContinuation(req.scenes, ContinuationDetails(req, outcome),
                                          req.finalSelectedLayout.panelCount)
       IN  /\ scenes' = newScenes
           /\ ValidateStory(req, newScenes)
           /\ continuationLog' = ResponseRecord(outcome, StoryAlert(newScenes))
    /\ continuationContext' = IF req.continuationContext = NoPage
                              THEN continuationContext ELSE NoPage
    /\ resizeLog' = NoResizeLog
    /\ UNCHANGED << appVars, confirmModal, layoutVars,
                    pageMode, colorMode, selectionVars, outputVars, seedVars,
                    effectsPending, now, pageOutline, formVars, compileLog, deletionLog,
                    overlap, synthesisLog >>

\* Promise.all of the reference images resolves: the images are attached in
\* the order of the items, the prompt is compiled and
\* generateComicPanels is called
GatherDone ==
    /\ req.pc = "gathering"
    /\ LET items == ReferenceItems(req.scenesForGeneration, req.characters, req.assets)
           imageParts == [ i \in 1..Len(items) |->
                             ToBase64FromUrl(items[i].referenceImageUrl) ]
           prompt == BuildPrompt(req.finalSelectedLayout, req.scenesForGeneration,
                                 req.characters, req.assets, req.project,
                                 req.pageMode, req.colorMode)
           inputs == [layout |-> req.finalSelectedLayout,
                      scenes |-> req.scenesForGeneration,
                      characters |-> req.characters, assets |-> req.assets,
                      project |-> req.project, pageMode |-> req.pageMode,
                      colorMode |-> req.colorMode]
       IN  /\ finalPrompt' = prompt
           /\ finalStory' = FullStoryText(req.scenesForGeneration)
           /\ req' = [req EXCEPT !.pc = "synthesizing", !.prompt = prompt,
                                  !.imageParts = imageParts,
                                  !.slots = << [NoSlot EXCEPT !.calls = 1],
                                               [NoSlot EXCEPT !.calls = 1] >>]
           /\ continuationLog' = NoLog
           /\ compileLog' = << IF compileLog[2].kind = "compile"
                                  /\ compileLog[2].inputs = inputs
                               THEN compileLog[2] ELSE NoLog,
                               [kind |-> "compile", inputs |-> inputs,
                                prompt |-> prompt, imageParts |-> imageParts,
                                seed |-> req.seedToUse] >>
    /\ UNCHANGED << appVars, confirmModal, continuationContext, scenes, layoutVars,
                    pageMode, colorMode, selectionVars, isLoading, isModalOpen,
                    generatedImages, seedVars, effectsPending, now, pageOutline, formVars, resizeLog, deletionLog,
                    overlap, synthesisLog >>

\* one of the reference images fails to load: the catch block and finally
GatherFails ==
    /\ req.pc = "gathering"
    /\ ReferenceItems(req.scenesForGeneration, req.characters, req.assets) # << >>
    /\ isLoading' = FALSE
    /\ req' = NoRequest
    /\ continuationLog' = NoLog
    /\ UNCHANGED << appVars, confirmModal, continuationContext, scenes, layoutVars,
                    pageMode, colorMode, selectionVars, outputVars, seedVars,
                    effectsPending, now, pageOutline, formVars, resizeLog, compileLog, deletionLog,
                    overlap, synthesisLog >>

\* the image generateAndValidate returns for a slot, and getPlaceholderImage
RealImage(k) == IF k = 1 THEN "img-real-1" ELSE "img-real-2"

PlaceholderImage == "img-placeholder"

\* a slot whose backend call failed instead resolves with the placeholder
\* at once
AttemptAfterNoRetry(slot, k, ok) ==
    IF ok
    THEN [slot EXCEPT !.result = RealImage(k)]
    ELSE [slot EXCEPT !.failures = @ + 1, !.result = PlaceholderImage]

\* attemptGeneration after one backend call of slot k returned: ok is
\* whether the response held an image part
AttemptAfter(slot, k, ok) ==
    IF ok
    THEN [slot EXCEPT !.result = RealImage(k)]
    ELSE IF slot.calls = 1
         THEN [slot EXCEPT !.failures = @ + 1, !.calls = 2]
         ELSE [slot EXCEPT !.failures = @ + 1, !.result = PlaceholderImage]

\* a backend call of slot k of generateComicPanels returns
AttemptReturns(k, ok) ==
    /\ req.pc = "synthesizing"
    /\ req.slots[k].result = ""
    /\ req' = [req EXCEPT !.slots[k] = AttemptAfter(@, k, ok)]
    /\ UNCHANGED << appVars, confirmModal, continuationContext, scenes, layoutVars,
                    pageMode, colorMode, selectionVars, isLoading, outputVars,
                    seedVars, effectsPending, now, pageOutline, formVars, historyVars,
                    overlap >>

\* `data:${mimeType};base64,${data}` of the re-encoded candidate
ProcessedImage(imgUrl) == [dataUrl |-> ToBase64FromUrl(imgUrl)]

\* history of a synthesis: the prompt and the story of the run whose
\* candidates are on display
SynthesisRecord(r) ==
    [kind |-> "synthesis", prompt |-> r.prompt,
     story |-> FullStoryText(r.scenesForGeneration)]

\* a completion that leaves the placeholders out of the candidates
SynthesisDoneWithoutPlaceholders(result1, result2) ==
    /\ req.pc = "synthesizing"
    /\ result1 # "" /\ result2 # ""
    /\ req.slots[1].result = result1
    /\ req.slots[2].result = result2
    /\ generatedImages' =
          SelectSeq(<< ProcessedImage(result1), ProcessedImage(result2) >>,
                    LAMBDA img : img # ProcessedImage(PlaceholderImage))
    /\ isModalOpen' = TRUE
    /\ isLoading' = FALSE
    /\ req' = NoRequest
    /\ synthesisLog' = SynthesisRecord(req)
    /\ UNCHANGED << appVars, confirmModal, continuationContext, scenes, layoutVars,
                    pageMode, colorMode, selectionVars, finalPrompt, finalStory,
                    seedVars, effectsPending, now, pageOutline, formVars, resizeLog,
                    compileLog, deletionLog, continuationLog, overlap >>

\* generateComicPanels resolves with its two candidates (Promise.all over
\* the two slots), they are re-encoded and the selection modal opens
SynthesisDone(result1, result2) ==
    /\ req.pc = "synthesizing"
    /\ result1 # "" /\ result2 # ""
    /\ req.slots[1].result = result1
    /\ req.slots[2].result = result2
    /\ generatedImages' = << ProcessedImage(result1), ProcessedImage(result2) >>
    /\ isModalOpen' = TRUE
    /\ isLoading' = FALSE
    /\ req' = NoRequest
    /\ synthesisLog' = SynthesisRecord(req)
    /\ UNCHANGED << appVars, confirmModal, continuationContext, scenes, layoutVars,
                    pageMode, colorMode, selectionVars, finalPrompt, finalStory,
                    seedVars, effectsPending, now, pageOutline, formVars, resizeLog,
                    compileLog, deletionLog, continuationLog, overlap >>

\* a re-encoding that fails and leaves the loading flag set
ProcessingFailsKeepLoading ==
    /\ req.pc = "synthesizing"
    /\ \A k \in 1..2 : req.slots[k].result # ""
    /\ isLoading' = isLoading
    /\ req' = NoRequest
    /\ UNCHANGED << appVars, confirmModal, continuationContext, scenes, layoutVars,
                    pageMode, colorMode, selectionVars, outputVars, seedVars,
                    effectsPending, now, pageOutline, formVars, overlap, historyVars >>

\* generateComicPanels has resolved and toBase64FromUrl rejects for one of
\* the candidates: the catch block and finally
ProcessingFails ==
    /\ req.pc = "synthesizing"
    /\ \A k \in 1..2 : req.slots[k].result # ""
    /\ isLoading' = FALSE
    /\ req' = NoRequest
    /\ UNCHANGED << appVars, confirmModal, continuationContext, scenes, layoutVars,
                    pageMode, colorMode, selectionVars, outputVars, seedVars,
                    effectsPending, now, pageOutline, formVars, overlap, historyVars >>

----------------------------------------------------------------------------
(* A second handleGenerate call in flight.  The "continue" button of a     *)
(* page has no disabled state and the effect on [continuationContext]      *)
(* calls handleGenerate(true) without looking at isLoading, so the call    *)
(* starts whether or not an earlier one is still suspended.  overlap holds *)
(* that call the way req holds the first one.                              *)

\* handleContinueFromPage(page) and the effect on [continuationContext]
\* while a call is in flight
HandleContinueFromPageWhileInFlight(page, Seeds) ==
    /\ UserCanAct
    /\ req # NoRequest
    /\ overlap = NoRequest
    /\ Includes(pages, page)
    /\ page # continuationContext
    /\ continuationContext' = page
    /\ \E s \in Seeds :
         LET seedToUse == IF isSeedLocked THEN seed ELSE s
         IN  /\ seed' = seedToUse
             /\ overlap' = [Closure(TRUE, seedToUse) EXCEPT !.pc = "loadingContext",
                                                            !.continuationContext = page]
    /\ isLoading' = TRUE
    /\ UNCHANGED << appVars, confirmModal, scenes, layoutVars,
                    pageMode, colorMode, selectionVars, outputVars, isSeedLocked,
                    effectsPending, now, pageOutline, formVars, req, historyVars >>

\* toBase64FromUrl resolves for the second call
OverlapContextImageLoads ==
    /\ overlap.pc = "loadingContext"
    /\ overlap' = [overlap EXCEPT !.pc = "continuing"]
    /\ UNCHANGED << appVars, confirmModal, continuationContext, scenes, layoutVars,
                    pageMode, colorMode, selectionVars, isLoading, outputVars,
                    seedVars, effectsPending, now, pageOutline, formVars, req,
                    historyVars >>

\* toBase64FromUrl rejects for the second call: its catch block and finally
OverlapContextImageFails ==
    /\ overlap.pc = "loadingContext"
    /\ isLoading' = FALSE
    /\ overlap' = NoRequest
    /\ UNCHANGED << appVars, confirmModal, continuationContext, scenes, layoutVars,
                    pageMode, colorMode, selectionVars, outputVars, seedVars,
                    effectsPending, now, pageOutline, formVars, req, historyVars >>

\* generateStoryContinuation resolves for the second call:
\* onClearContinuationContext, the merge into the scenes of its closure,
\* setScenes(newScenes), then the story validation
OverlapContinuationReturns(outcome) ==
    /\ overlap.pc = "continuing"
    /\ LET newScenes == MergeContinuation(overlap.scenes,
                                          ContinuationDetails(overlap, outcome),
                                          overlap.finalSelectedLayout.panelCount)
       IN  /\ scenes' = newScenes
           /\ IF CurrentStory(newScenes) = << >>
              THEN /\ isLoading' = FALSE
                   /\ overlap' = NoRequest
              ELSE /\ isLoading' = isLoading
                   /\ overlap' = [overlap EXCEPT !.pc = "gathering",
                                                 !.scenesForGeneration = newScenes]
    /\ continuationContext' = NoPage
    /\ resizeLog' = NoResizeLog
    /\ UNCHANGED << appVars, confirmModal, layoutVars,
                    pageMode, colorMode, selectionVars, outputVars, seedVars,
                    effectsPending, now, pageOutline, formVars, req, compileLog,
                    deletionLog, continuationLog, synthesisLog >>

\* Promise.all of the reference images resolves for the second call:
\* setFinalPrompt, setFinalStory and the call of generateComicPanels
OverlapGatherDone ==
    /\ overlap.pc = "gathering"
    /\ LET items == ReferenceItems(overlap.scenesForGeneration, overlap.characters,
                                   overlap.assets)
           imageParts == [ i \in 1..Len(items) |->
                             ToBase64FromUrl(items[i].referenceImageUrl) ]
           prompt == BuildPrompt(overlap.finalSelectedLayout,
                                 overlap.scenesForGeneration, overlap.characters,
                                 overlap.assets, overlap.project, overlap.pageMode,
                                 overlap.colorMode)
       IN  /\ finalPrompt' = prompt
           /\ finalStory' = FullStoryText(overlap.scenesForGeneration)
           /\ overlap' = [overlap EXCEPT !.pc = "synthesizing", !.prompt = prompt,
                                          !.imageParts = imageParts,
                                          !.slots = << [NoSlot EXCEPT !.calls = 1],
                                                       [NoSlot EXCEPT !.calls = 1] >>]
    /\ UNCHANGED << appVars, confirmModal, continuationContext, scenes, layoutVars,
                    pageMode, colorMode, selectionVars, isLoading, isModalOpen,
                    generatedImages, seedVars, effectsPending, now, pageOutline,
                    formVars, req, historyVars >>

\* a backend call of slot k returns for the second call
OverlapAttemptReturns(k, ok) ==
    /\ overlap.pc = "synthesizing"
    /\ overlap.slots[k].result = ""
    /\ overlap' = [overlap EXCEPT !.slots[k] = AttemptAfter(@, k, ok)]
    /\ UNCHANGED << appVars, confirmModal, continuationContext, scenes, layoutVars,
                    pageMode, colorMode, selectionVars, isLoading, outputVars,
                    seedVars, effectsPending, now, pageOutline, formVars, req,
                    historyVars >>

\* generateComicPanels resolves for the second call: its candidates replace
\* those on display and the selection modal opens
OverlapSynthesisDone(result1, result2) ==
    /\ overlap.pc = "synthesizing"
    /\ result1 # "" /\ result2 # ""
    /\ overlap.slots[1].result = result1
    /\ overlap.slots[2].result = result2
    /\ generatedImages' = << ProcessedImage(result1), ProcessedImage(result2) >>
    /\ isModalOpen' = TRUE
    /\ isLoading' = FALSE
    /\ overlap' = NoRequest
    /\ synthesisLog' = SynthesisRecord(overlap)
    /\ UNCHANGED << appVars, confirmModal, continuationContext, scenes, layoutVars,
                    pageMode, colorMode, selectionVars, finalPrompt, finalStory,
                    seedVars, effectsPending, now, pageOutline, formVars, req,
                    resizeLog, compileLog, deletionLog, continuationLog >>


\* the page outline textarea
SetPageOutline(text) ==
    /\ UserCanAct
    /\ pageOutline' = text
    /\ UNCHANGED << appVars, confirmModal, continuationContext, scenes, layoutVars,
                    pageMode, colorMode, selectionVars, isLoading, outputVars,
                    seedVars, effectsPending, now, req, historyVars, formVars,
                    overlap >>

\* handleSelectImage(imageUrl): a click on one candidate of the modal
HandleSelectImage(imageUrl) ==
    /\ effectsPending = {}
    /\ ~confirmModal.isOpen
    /\ isModalOpen
    /\ Includes(generatedImages, imageUrl)
    /\ pages' = Append(pages,
                  [pageId |-> [t |-> now],
                   pageNumber |-> Len(pages) + 1,
                   imageUrl |-> imageUrl,
                   userStoryText |-> finalStory,
                   finalGenerationPrompt |-> finalPrompt,
                   mode |-> IF project.format = PAGE THEN pageMode ELSE SINGLE])
    /\ isModalOpen' = FALSE
    /\ generatedImages' = << >>
    /\ scenes' = [ i \in 1..CurrentLayout.panelCount |-> BlankScene(now, i - 1) ]
    /\ pageMode' = SINGLE
    /\ pageOutline' = ""
    /\ resizeLog' = NoResizeLog
    /\ UNCHANGED << project, characters, assets, relationships, confirmModal,
                    continuationContext, layoutVars, colorMode, selectionVars,
                    isLoading, finalPrompt, finalStory, seedVars, effectsPending,
                    now, req, compileLog, deletionLog, continuationLog, formVars,
                    overlap, synthesisLog >>

\* the close button of the selection modal
CloseSelectionModal ==
    /\ effectsPending = {}
    /\ ~confirmModal.isOpen
    /\ isModalOpen
    /\ isModalOpen' = FALSE
    /\ UNCHANGED << appVars, confirmModal, continuationContext, scenes, layoutVars,
                    pageMode, colorMode, selectionVars, isLoading, generatedImages,
                    finalPrompt, finalStory, seedVars, effectsPending, now, pageOutline, formVars, req,
                    historyVars,
                    overlap >>

----------------------------------------------------------------------------
(* Initial states: the App state of a created or imported project and the  *)
(* PageCreator just constructed by its useState initialisers, its mount    *)
(* effects still to run.                                                   *)

ImportedPage ==
    [pageId |-> [t |-> 0], pageNumber |-> 1, imageUrl |-> [url |-> "img-imported"],
     userStoryText |-> << T("imported-story") >>,
     finalGenerationPrompt |-> << T("imported-prompt") >>, mode |-> SINGLE]

Constructed(fmt, cs, as, rels, pgs, initialSeed) ==
    /\ project = [format |-> fmt, stylePrompt |-> "shonen-style"]
    /\ characters = cs
    /\ assets = as
    /\ relationships = rels
    /\ pages = pgs
    /\ confirmModal = NoModal
    /\ continuationContext = NoPage
    /\ importer = NoImport
    /\ relationshipForm = NoForm
    /\ scenes = << >>
    /\ selectedLayout = LAYOUT_TEMPLATES[3].id
    /\ customLayoutConfig = << 1 >>
    /\ pageMode = SINGLE
    /\ colorMode = "color"
    /\ selectedCharIdsForContinuation = << >>
    /\ selectedAssetIdsForContinuation = << >>
    /\ isLoading = FALSE
    /\ isModalOpen = FALSE
    /\ generatedImages = << >>
    /\ finalPrompt = << >>
    /\ finalStory = << >>
    /\ seed = initialSeed
    /\ isSeedLocked = FALSE
    /\ pageOutline = ""
    /\ effectsPending = {"registry", "panelCount", "format"}
    /\ now = 0
    /\ req = NoRequest
    /\ overlap = NoRequest
    /\ resizeLog = NoResizeLog
    /\ compileLog = << NoLog, NoLog >>
    /\ deletionLog = NoLog
    /\ continuationLog = NoLog
    /\ synthesisLog = NoLog

\* the backend call threw, or its text did not parse into the expected shape
FailedOutcome == [ok |-> FALSE]

\* parsed panel_details arrays of one of the lengths in lens over the
\* details in ds
Outcomes(lens, ds) ==
    UNION { { [ok |-> TRUE, panel_details |-> d] : d \in [1..k -> ds] } : k \in lens }

Detail(desc, shot, names) ==
    [description |-> desc, camera_shot |-> shot, characters |-> names]

ImageResults == { RealImage(1), RealImage(2), PlaceholderImage }

----------------------------------------------------------------------------
(* Spec: entity registry, scene assignments and a continuation request      *)

RegistryRelationships ==
    { << Rel("r1", "c1", "c2") >>,
      << Rel("r1", "c1", "c2"), Rel("r2", "a1", "c1"), Rel("r3", "c2", "a1") >> }

Init ==
    \E rels \in RegistryRelationships :
        Constructed(PAGE, << CharacterTable.c1, CharacterTable.c2 >>,
                    << AssetTable.a1 >>, rels, << ImportedPage >>, 0)

\* responses without narrative text, with and without a character name: the
\* request ends at the story validation
RegistryOutcomes(n) ==
    Outcomes({n}, { Detail(<< >>, CAMERA_SHOTS[2], << >>),
                    Detail(<< SP >>, CAMERA_SHOTS[2], << "Aria" >>) })

DeleteEntity ==
    \/ \E id \in {"c1"} : HandleDeleteCharacter(id)
    \/ \E id \in {"a1"} : HandleDeleteAsset(id)

DeleteEntityWithModal ==
    \/ \E id \in {"c1"} : RequestDelete("character", id)
    \/ \E id \in {"a1"} : RequestDelete("asset", id)

AssignToFirstPanel ==
    \/ \E id \in {"c1"} : HandleSceneItemToggle(1, id, "character")
    \/ \E id \in {"a1"} : HandleSceneItemToggle(1, id, "asset")

SelectForContinuation ==
    \/ \E id \in {"c1"} : ToggleContinuationSelection(id, "character")
    \/ \E id \in {"a1"} : ToggleContinuationSelection(id, "asset")

AutoWrite == HandleGenerate(TRUE, {0})

ContinuationResolves ==
    /\ req.pc = "continuing"
    /\ \E o \in RegistryOutcomes(req.finalSelectedLayout.panelCount) :
          ContinuationReturns(o)

Next ==
    \/ RunEffects
    \/ DeleteEntity
    \/ DeleteEntityWithModal
    \/ ConfirmDelete
    \/ CancelDelete
    \/ AssignToFirstPanel
    \/ SelectForContinuation
    \/ AutoWrite
    \/ ContinuationResolves

Spec == Init /\ [][Next]_vars

----------------------------------------------------------------------------
(* Claims about the entity registry *)

InRegistry(id) == HasCharacter(characters, id) \/ HasAsset(assets, id)

ScenesReference(id) ==
    \E i \in 1..Len(scenes) :
        Includes(scenes[i].characterIds, id) \/ Includes(scenes[i].assetIds, id)

RelationshipsReference(id) ==
    \E k \in 1..Len(relationships) :
        relationships[k].entity1Id = id \/ relationships[k].entity2Id = id

SelectionsReference(id) ==
    \/ Includes(selectedCharIdsForContinuation, id)
    \/ Includes(selectedAssetIdsForContinuation, id)

\* C1: a deletion removes the entity from the registry; a step that removes
\* an entity from the registry also removes every relationship with that
\* entity at either end; and the step in which the
\* cleanup effect of that commit runs leaves no scene whose characterIds or
\* assetIds contain an id that is not in the registry.
C1_DeletionCascades ==
    [][ /\ \A id \in EntityIds :
            (InRegistry(id) /\ ~InRegistry(id)')
                => /\ ~RelationshipsReference(id)'
                   /\ deletionLog'.id = id
        /\ deletionLog' # deletionLog
                => \E id \in EntityIds :
                      /\ deletionLog'.id = id
                      /\ InRegistry(id)
                      /\ ~InRegistry(id)'
        /\ ("registry" \in effectsPending /\ effectsPending' = {})
                => \A id \in EntityIds : ~InRegistry(id)' => ~ScenesReference(id)'
      ]_vars

\* a deleted entity that a relationship and a scene referred to, after the
\* cleanup ran
C1_Witness ==
    /\ deletionLog # NoLog
    /\ deletionLog.hadRelationship
    /\ deletionLog.wasAssigned
    /\ effectsPending = {}
    /\ ~InRegistry(deletionLog.id)
    /\ ~RelationshipsReference(deletionLog.id)
    /\ ~ScenesReference(deletionLog.id)

NoDanglingReference ==
    \A id \in EntityIds :
        ~InRegistry(id) =>
            /\ ~RelationshipsReference(id)
            /\ ~ScenesReference(id)
            /\ ~SelectionsReference(id)

\* C2: in every state in which a handler can be invoked (the effects of the
\* last commit have run), no relationship, scene assignment list or
\* continuation selection list holds the id of an entity that is not in
\* the registry.
C2_NoObservableDanglingReference ==
    effectsPending = {} => NoDanglingReference

----------------------------------------------------------------------------
(* SpecLayout: layout selection, custom rows, scene editing and resizing   *)

InitLayout ==
    Constructed(PAGE, << CharacterTable.c1 >>, << >>, << >>, << ImportedPage >>, 0)

ChooseTemplate == \E t \in TemplateChoices : SelectLayout(t)

ChangeColumns ==
    \E rowIndex \in 1..MaxRows, newCols \in ColumnChoices :
        HandleColsChange(rowIndex, newCols)

EditPanel ==
    \E i \in 1..2 : HandleSceneChange(i, "description", << T("x") >>)

NextLayout ==
    \/ RunEffects
    \/ ChooseTemplate
    \/ HandleAddRow
    \/ HandleRemoveRow
    \/ ChangeColumns
    \/ EditPanel
    \/ Tick

SpecLayout == InitLayout /\ [][NextLayout]_vars

----------------------------------------------------------------------------
(* Claims about the layout resolver and the Scene Set *)

\* C3: in every state the number of scenes equals the panel count of the
\* resolved layout.
C3_SceneCountMatchesLayout ==
    Len(scenes) = CurrentLayout.panelCount

IsBlankScene(scene, t, i) ==
    /\ scene.sceneId = [t |-> t, i |-> i]
    /\ scene.description = << >>
    /\ scene.cameraShot = CAMERA_SHOTS[1]
    /\ scene.characterIds = << >>
    /\ scene.assetIds = << >>

Min(a, b) == IF a <= b THEN a ELSE b

\* C4: after a resize to n followed, with no other change of the scenes in
\* between, by a resize to m > n, the scenes below n are the scenes that
\* were there before the first resize and the slots n..m-1 hold blank scenes
\* created by the second resize.
C4_ResizePreservesPrefix ==
    LET first == resizeLog[1]
        second == resizeLog[2]
    IN  (first.kind = "resize" /\ second.kind = "resize" /\ first.n < second.n)
        => /\ Len(scenes) = second.n
           /\ \A i \in 1..Min(first.n, Len(first.before)) : scenes[i] = first.before[i]
           /\ \A i \in (first.n + 1)..second.n :
                 IsBlankScene(scenes[i], second.t, i - 1)

\* a shrink below two edited scenes followed by a growth
C4_Witness ==
    LET first == resizeLog[1]
        second == resizeLog[2]
    IN  /\ first.kind = "resize" /\ second.kind = "resize"
        /\ first.n < second.n
        /\ Len(first.before) > first.n
        /\ first.before[1].description # << >>
        /\ first.before[first.n + 1].description # << >>
        /\ scenes[1].description # << >>
        /\ scenes[first.n + 1].description = << >>

RowMentions(description) ==
    SelectSeq(description, LAMBDA tok : tok.text = "row-has-panels")

RECURSIVE Total(_, _)
Total(f, n) == IF n = 0 THEN 0 ELSE f[n] + Total(f, n - 1)

\* C5: the custom row configuration has at least one row and every row has
\* at least one column; the layout resolved from it has the sum of the rows
\* as its panel count and a description with one mention per row, the i-th
\* carrying row i's count.
C5_CustomLayoutResolution ==
    LET config == customLayoutConfig
        layout == FinalSelectedLayout("custom", config)
        rows == RowMentions(layout.description)
    IN  /\ Len(config) >= 1
        /\ \A i \in 1..Len(config) : config[i] >= 1
        /\ layout.panelCount = Total(config, Len(config))
        /\ Len(rows) = Len(config)
        /\ \A i \in 1..Len(rows) : rows[i].row = i /\ rows[i].count = config[i]
        /\ layout.description[1].rows = Len(config)
        /\ selectedLayout = "custom" => CurrentLayout = layout

\* the custom template selected with two rows of different widths, resized
C5_Witness ==
    /\ selectedLayout = "custom"
    /\ Len(customLayoutConfig) = 2
    /\ customLayoutConfig[1] = 3
    /\ customLayoutConfig[2] = 2
    /\ effectsPending = {}
    /\ Len(scenes) = 5

----------------------------------------------------------------------------
(* SpecPrompt: scene assignments, modes and the generation request up to   *)
(* the selection modal                                                     *)

InitPrompt ==
    \E fmt \in ComicFormat :
        Constructed(fmt, << CharacterTable.c1, CharacterTable.c2 >>,
                    << AssetTable.a1 >>, << >>, << ImportedPage >>, 0)

\* the user edits the page between two requests (Spec explores edits made
\* while a request is in flight)
Idle == req = NoRequest /\ overlap = NoRequest

DescribeFirstPanel == Idle /\ HandleSceneChange(1, "description", << T("x") >>)

AssignEntities ==
    /\ Idle
    /\ \/ HandleSceneItemToggle(1, "c1", "character")
       \/ HandleSceneItemToggle(1, "a1", "asset")
       \/ HandleSceneItemToggle(2, "c2", "character")

ChoosePageMode == Idle /\ \E mode \in PageMode : SetPageMode(mode)

ChooseColorMode == Idle /\ \E mode \in ColorMode : SetColorMode(mode)

Generate == HandleGenerate(FALSE, 0..MaxSeed)

\* the backend of SpecPrompt: slot 1 gets an image at once, both calls of
\* slot 2 fail
AttemptResolves == AttemptReturns(1, TRUE) \/ AttemptReturns(2, FALSE)

SynthesisResolves == \E result1, result2 \in ImageResults : SynthesisDone(result1, result2)

NextPrompt ==
    \/ RunEffects
    \/ DescribeFirstPanel
    \/ AssignEntities
    \/ ChoosePageMode
    \/ ChooseColorMode
    \/ Generate
    \/ GatherDone
    \/ GatherFails
    \/ AttemptResolves
    \/ SynthesisResolves
    \/ CloseSelectionModal

SpecPrompt == InitPrompt /\ [][NextPrompt]_vars

----------------------------------------------------------------------------
(* Claims about the Prompt Compiler and the reference images *)

LastCompile == compileLog[2]

PreviousCompile == compileLog[1]

\* C6: a compilation whose scenes, registry, project, page mode, colour mode
\* and layout equal those of the compilation before it yields the same
\* prompt, and the step that compiles leaves the scenes, the registry, the
\* project, the modes and the layout as they were.
C6_CompilationDeterministic ==
    [][ compileLog' # compileLog
          => /\ (compileLog'[1].kind = "compile"
                   /\ compileLog'[1].inputs = compileLog'[2].inputs)
                 => compileLog'[1].prompt = compileLog'[2].prompt
             /\ UNCHANGED << project, characters, assets, relationships, pages,
                             scenes, layoutVars, pageMode, colorMode,
                             selectionVars, seedVars >>
      ]_vars

\* two compilations of the same inputs under different seeds
C6_Witness ==
    /\ PreviousCompile.kind = "compile"
    /\ LastCompile.kind = "compile"
    /\ PreviousCompile.inputs = LastCompile.inputs
    /\ PreviousCompile.seed # LastCompile.seed
    /\ Len(LastCompile.imageParts) = 3

SheetEntries(prompt) ==
    SelectSeq(prompt, LAMBDA tok : ~IsWs(tok) /\ tok.text = "sheet-entry")

PanelClauses(prompt) ==
    SelectSeq(prompt, LAMBDA tok : ~IsWs(tok) /\ tok.text = "appears")

\* the position of the entity called name in a registry list, 0 if absent
PositionOf(list, name) ==
    IF \E i \in 1..Len(list) : list[i].name = name
    THEN CHOOSE i \in 1..Len(list) : list[i].name = name
    ELSE 0

\* C7: in a compiled prompt the reference sheet is numbered 1, 2, 3, ...,
\* lists the characters before the assets, each kind in registry order, and
\* every panel clause cites an entity with the index the sheet gives it.
C7_ReferenceIndices ==
    LastCompile.kind = "compile" =>
        LET sheet == SheetEntries(LastCompile.prompt)
            clauses == PanelClauses(LastCompile.prompt)
            cs == LastCompile.inputs.characters
            as == LastCompile.inputs.assets
        IN  /\ \A i \in 1..Len(sheet) : sheet[i].ref = i
            /\ \A i, j \in 1..Len(sheet) :
                 i < j =>
                    /\ ~(sheet[i].type = "item" /\ sheet[j].type = "character")
                    /\ (sheet[i].type = "character" /\ sheet[j].type = "character")
                          => PositionOf(cs, sheet[i].name) < PositionOf(cs, sheet[j].name)
                    /\ (sheet[i].type = "item" /\ sheet[j].type = "item")
                          => PositionOf(as, sheet[i].name) < PositionOf(as, sheet[j].name)
            /\ \A k \in 1..Len(clauses) :
                 \E i \in 1..Len(sheet) :
                    sheet[i].name = clauses[k].name /\ sheet[i].ref = clauses[k].ref

\* a prompt for Aria, Bram and the Sword in which the second panel cites
\* Bram, first of its panel, as reference 2
C7_Witness ==
    /\ LastCompile.kind = "compile"
    /\ Len(SheetEntries(LastCompile.prompt)) = 3
    /\ LastCompile.inputs.scenes[1].characterIds = << "c1" >>
    /\ LastCompile.inputs.scenes[2].characterIds = << "c2" >>
    /\ Len(PanelClauses(LastCompile.prompt)) = 3
    /\ PanelClauses(LastCompile.prompt)[2] = [text |-> "appears", name |-> "Sword", ref |-> 3]
    /\ PanelClauses(LastCompile.prompt)[3] = [text |-> "appears", name |-> "Bram", ref |-> 2]

\* the registry entries that some scene of the request refers to
AppearingEntities(compile) ==
    { c \in Range(compile.inputs.characters) :
        \E i \in 1..Len(compile.inputs.scenes) :
            Includes(compile.inputs.scenes[i].characterIds, c.characterId) }
    \cup
    { a \in Range(compile.inputs.assets) :
        \E i \in 1..Len(compile.inputs.scenes) :
            Includes(compile.inputs.scenes[i].assetIds, a.assetId) }

\* C8: the images sent with a request are the images of exactly the
\* registry entries that appear in its scenes, one each, and the i-th image
\* is the image of the entity the prompt's sheet lists as reference i.
C8_AttachedImages ==
    LastCompile.kind = "compile" =>
        LET sheet == SheetEntries(LastCompile.prompt)
            images == LastCompile.imageParts
            entities == AppearingEntities(LastCompile)
        IN  /\ Len(images) = Cardinality(entities)
            /\ Range(images) = { ToBase64FromUrl(e.referenceImageUrl) : e \in entities }
            /\ Len(images) = Len(sheet)
            /\ \A i \in 1..Len(images) :
                 \E e \in entities :
                    /\ e.name = sheet[i].name
                    /\ sheet[i].ref = i
                    /\ images[i] = ToBase64FromUrl(e.referenceImageUrl)

\* a request that attaches Bram's and the Sword's image and not Aria's
C8_Witness ==
    /\ LastCompile.kind = "compile"
    /\ req # NoRequest
    /\ req.pc = "synthesizing"
    /\ req.imageParts = << ToBase64FromUrl("url-c2"), ToBase64FromUrl("url-a1") >>
    /\ LastCompile.imageParts = req.imageParts

AspectInstructions(prompt) ==
    SelectSeq(prompt, LAMBDA tok : ~IsWs(tok) /\ tok.text = "aspect")

TaskInstructions(prompt) ==
    SelectSeq(prompt, LAMBDA tok : ~IsWs(tok) /\ tok.text = "task")

\* C9: the compiled prompt of a page project in spread mode carries the
\* landscape instruction, that of a page project in single mode the
\* portrait instruction, and that of a webtoon project a vertical-strip
\* instruction and no instruction that fixes an aspect ratio.
C9_AspectInstruction ==
    LastCompile.kind = "compile" =>
        LET aspect == AspectInstructions(LastCompile.prompt)
            task == TaskInstructions(LastCompile.prompt)
            format == LastCompile.inputs.project.format
            mode == LastCompile.inputs.pageMode
        IN  /\ (format = PAGE /\ mode = SPREAD)
                 => Len(aspect) = 1 /\ aspect[1].orientation = "LANDSCAPE"
            /\ (format = PAGE /\ mode = SINGLE)
                 => Len(aspect) = 1 /\ aspect[1].orientation = "PORTRAIT"
            /\ format = WEBTOON
                 => /\ Len(task) = 1 /\ task[1].framing = "webtoon-strip"
                    /\ \A i \in 1..Len(aspect) : aspect[i].strictRatio = "none"

----------------------------------------------------------------------------
(* SpecCont: the continuation request, from AI auto-write to the call of   *)
(* the synthesizer, over the responses of the backend                      *)

\* the registries of SpecCont: two characters, or none
ContRegistries == { << CharacterTable.c1, CharacterTable.c2 >>, << >> }

InitCont ==
    \E cs \in ContRegistries :
        Constructed(PAGE, cs, << >>, << >>, << ImportedPage >>, 0)

\* what the backend may answer for one panel: a character of the pool, a
\* registered character outside the pool, a name nobody bears; a shot of the
\* list or another string
BackendDetails ==
    { Detail(<< T("y") >>, CAMERA_SHOTS[2], << "Aria" >>),
      Detail(<< T("y") >>, "Bogus", << "Bram" >>),
      Detail(<< >>, CAMERA_SHOTS[5], << "Zed", "Aria" >>) }

BackendOutcomes == Outcomes({0, 1, 2}, BackendDetails) \cup { FailedOutcome }

SelectMainCharacter == Idle /\ ToggleContinuationSelection("c1", "character")

PresetCharacter == Idle /\ HandleSceneItemToggle(2, "c2", "character")

ChooseThreePanels == Idle /\ SelectLayout("3-vertical")

ChooseShot == Idle /\ HandleSceneChange(1, "cameraShot", CAMERA_SHOTS[3])

BackendResponds == \E o \in BackendOutcomes : ContinuationReturns(o)

NextCont ==
    \/ RunEffects
    \/ SelectMainCharacter
    \/ PresetCharacter
    \/ ChooseThreePanels
    \/ ChooseShot
    \/ AutoWrite
    \/ BackendResponds
    \/ GatherDone
    \/ GatherFails

SpecCont == InitCont /\ [][NextCont]_vars

----------------------------------------------------------------------------
(* Claims about the Continuity Engine *)

\* C10: when a continuation requested with a non-empty selection of main
\* characters resolves, the characterIds of every panel are among the
\* selected main characters and the characters preset in that panel.
C10_PoolRestriction ==
    [][ (req.pc = "continuing" /\ req'.pc # "continuing"
            /\ SelectedChars(req) # << >>)
          => \A i \in 1..Len(scenes') :
                Range(scenes'[i].characterIds) \subseteq
                    (Range(req.selectedCharIdsForContinuation)
                        \cup Range(req.scenes[i].characterIds))
      ]_vars

\* the step in which a continuation resolves and is merged
ContinuationMerged ==
    /\ continuationLog' # continuationLog
    /\ continuationLog'.kind = "response"

\* the raw entry of the response for panel i, if it has one
HasRawEntry(log, i) ==
    log.outcome.ok /\ i <= Len(log.outcome.panel_details)

\* C11: when a continuation is merged, every scene's camera shot is in the
\* shot list, and a scene whose raw response shot is not in the list keeps
\* the shot it had when the continuation was requested.
C11_CameraShotValidation ==
    [][ ContinuationMerged
          => \A i \in 1..Len(scenes') :
                /\ Includes(CAMERA_SHOTS, scenes'[i].cameraShot)
                /\ (HasRawEntry(continuationLog', i)
                      /\ ~Includes(CAMERA_SHOTS,
                                   continuationLog'.outcome.panel_details[i].camera_shot))
                     => scenes'[i].cameraShot =
                            continuationLog'.request.scenes[i].cameraShot
      ]_vars

\* a merged response with a shot outside the list for panel 1, whose shot
\* the user had chosen, and a shot of the list for panel 2
C11_Witness ==
    /\ continuationLog.kind = "response"
    /\ continuationLog.outcome.ok
    /\ Len(continuationLog.outcome.panel_details) = 2
    /\ continuationLog.outcome.panel_details[1].camera_shot = "Bogus"
    /\ continuationLog.outcome.panel_details[2].camera_shot = CAMERA_SHOTS[2]
    /\ continuationLog.request.scenes[1].cameraShot = CAMERA_SHOTS[3]
    /\ scenes[1].cameraShot = CAMERA_SHOTS[3]
    /\ scenes[2].cameraShot = CAMERA_SHOTS[2]

\* the names of a raw entry that some character of the registry bears,
\* each replaced by the id of that character
ResolvedIds(registry, names) ==
    LET known == SelectSeq(names, LAMBDA n : \E c \in Range(registry) : c.name = n)
    IN  [ k \in 1..Len(known) |->
            (CHOOSE c \in Range(registry) : c.name = known[k]).characterId ]

\* C12: when a continuation is merged, every panel's characterIds are ids of
\* characters of the registry the request passed: those of the names of the
\* panel's raw entry that resolve, and none for a panel without a raw
\* entry; with an empty registry every panel's characterIds is empty.
C12_ResolvedCharacterIds ==
    [][ ContinuationMerged
          => LET log == continuationLog'
                 registry == log.request.characters
             IN  \A i \in 1..Len(scenes') :
                    /\ Range(scenes'[i].characterIds) \subseteq CharIdsOf(registry)
                    /\ scenes'[i].characterIds =
                         IF HasRawEntry(log, i)
                         THEN ResolvedIds(registry, log.outcome.panel_details[i].characters)
                         ELSE << >>
                    /\ registry = << >> => scenes'[i].characterIds = << >>
      ]_vars

\* a merged response that names Zed, whom the registry does not know, and
\* Aria for panel 1
C12_Witness ==
    /\ continuationLog.kind = "response"
    /\ continuationLog.outcome.ok
    /\ Len(continuationLog.outcome.panel_details) >= 1
    /\ continuationLog.outcome.panel_details[1].characters = << "Zed", "Aria" >>
    /\ continuationLog.request.characters # << >>
    /\ scenes[1].characterIds = << "c1" >>

\* C13: when a merged response has fewer entries than the request has
\* panels, panel 1's description is the returned descriptions joined by a
\* space, every other panel's description is empty, and the request goes on
\* to the story validation.
C13_FewerEntriesFallback ==
    [][ (ContinuationMerged
            /\ continuationLog'.outcome.ok
            /\ Len(continuationLog'.outcome.panel_details)
                  < continuationLog'.request.finalSelectedLayout.panelCount)
          => LET details == continuationLog'.outcome.panel_details
             IN  /\ Len(scenes') >= 1
                 /\ scenes'[1].description =
                        Join([ k \in 1..Len(details) |-> details[k].description ],
                             << SP >>)
                 /\ \A i \in 2..Len(scenes') : scenes'[i].description = << >>
      ]_vars

\* C14: when the backend call fails or its response does not parse, the
\* merge leaves one scene per panel of the request, the fallback narrative
\* as panel 1's description and an empty description in every other panel,
\* and the request goes on to gather the reference images.
C14_BackendFailureFallback ==
    [][ (ContinuationMerged /\ ~continuationLog'.outcome.ok)
          => /\ Len(scenes') = continuationLog'.request.finalSelectedLayout.panelCount
             /\ Len(scenes') >= 1
             /\ scenes'[1].description = << T("fallback-hero-paused") >>
             /\ \A i \in 2..Len(scenes') : scenes'[i].description = << >>
             /\ req'.pc = "gathering"
             /\ isLoading'
      ]_vars

\* a failed continuation merged over scenes that had a description in
\* panel 2
C14_Witness ==
    /\ continuationLog.kind = "response"
    /\ ~continuationLog.outcome.ok
    /\ Len(continuationLog.request.scenes) >= 2
    /\ continuationLog.request.scenes[2].description # << >>
    /\ scenes[1].description = << T("fallback-hero-paused") >>
    /\ scenes[2].description = << >>

----------------------------------------------------------------------------
(* SpecSynth: one generation request after another, over every outcome of  *)
(* the backend calls of the synthesizer                                    *)

InitSynth ==
    Constructed(PAGE, << CharacterTable.c1 >>, << >>, << >>, << ImportedPage >>, 0)

BackendCallReturns == \E k \in 1..2, ok \in BOOLEAN : AttemptReturns(k, ok)

NextSynth ==
    \/ RunEffects
    \/ DescribeFirstPanel
    \/ Generate
    \/ GatherDone
    \/ BackendCallReturns
    \/ SynthesisResolves
    \/ CloseSelectionModal

SpecSynth == InitSynth /\ [][NextSynth]_vars

----------------------------------------------------------------------------
(* Claims about the Image Synthesizer *)

IsCandidateOfSlot(img, k) ==
    img \in { ProcessedImage(RealImage(k)), ProcessedImage(PlaceholderImage) }

SlotFilled(slot) == slot.result # ""

SlotWithinPolicy(slot, k) ==
    /\ slot.calls \in 1..2
    /\ slot.failures \in 0..slot.calls
    /\ slot.calls = 2 => slot.failures >= 1
    /\ slot.result \in { "", RealImage(k), PlaceholderImage }
    /\ slot.result = "" => slot.failures = slot.calls - 1
    /\ slot.result = RealImage(k) => slot.failures = slot.calls - 1
    /\ slot.result = PlaceholderImage <=> slot.failures = 2

\* C16: while the synthesizer runs, each slot has made one or two backend
\* calls, the second only after the first failed, a slot that got an image
\* makes no further call, a slot holds the placeholder exactly if both its
\* calls failed, and a step changes at most one slot.
C16_BoundedRetry ==
    [][ req'.pc = "synthesizing"
          => /\ \A k \in 1..2 : SlotWithinPolicy(req'.slots[k], k)
             /\ req.pc = "synthesizing"
                  => /\ \E k \in 1..2 : req'.slots[k] = req.slots[k]
                     /\ \A k \in 1..2 :
                          SlotFilled(req.slots[k]) => req'.slots[k] = req.slots[k]
      ]_vars

\* slot 1 got its image at the first call, slot 2 failed twice
C16_Witness ==
    /\ req # NoRequest
    /\ req.pc = "synthesizing"
    /\ req.slots[1] = [calls |-> 1, failures |-> 0, result |-> RealImage(1)]
    /\ req.slots[2] = [calls |-> 2, failures |-> 2, result |-> PlaceholderImage]

----------------------------------------------------------------------------
(* Claims about the story validation of a generation request *)

PastValidation(r) == r.pc \in {"gathering", "synthesizing"}

\* C17: a request gathers reference images and reaches the synthesizer only
\* with a story that is not blank; when the story is blank after the
\* continuation was merged, the request alerts its message and is idle
\* again, with no prompt compiled.
C17_BlankStoryStopsRequest ==
    [][ /\ PastValidation(req') => CurrentStory(req'.scenesForGeneration) # << >>
        /\ (ContinuationMerged /\ CurrentStory(scenes') = << >>)
             => /\ req' = NoRequest
                /\ ~isLoading'
                /\ continuationLog'.alert # ""
                /\ UNCHANGED << compileLog, outputVars >>
      ]_vars

\* a continuation came back with blank narrative only and the request ended
C17_Witness ==
    /\ continuationLog.kind = "response"
    /\ continuationLog.outcome.ok
    /\ continuationLog.alert # ""
    /\ CurrentStory(scenes) = << >>
    /\ req = NoRequest
    /\ ~isLoading

\* C18: a request that ends at the story validation after a continuation
\* leaves the Scene Set, the seed, the continuation context, the page list
\* and the stored prompt and story as they were when it started.
C18_ValidationFailureMutatesNothing ==
    [][ (ContinuationMerged /\ continuationLog'.alert # "")
          => LET before == continuationLog'.before
             IN  /\ scenes' = before.scenes
                 /\ seed' = before.seed
                 /\ continuationContext' = before.continuationContext
                 /\ pages' = before.pages
                 /\ finalPrompt' = before.finalPrompt
                 /\ finalStory' = before.finalStory
      ]_vars

----------------------------------------------------------------------------
(* SpecPages: generations, commits of a candidate and page deletions       *)

InitPages ==
    Constructed(PAGE, << CharacterTable.c1 >>, << >>, << >>, << ImportedPage >>, 0)

\* Date.now() moves on while the candidates are on display
ClockAdvancesTo(max) ==
    /\ now < max
    /\ isModalOpen
    /\ \E i \in 1..Len(pages) : pages[i].pageId = [t |-> now]
    /\ now' = now + 1
    /\ UNCHANGED << appVars, confirmModal, continuationContext, scenes, layoutVars,
                    pageMode, colorMode, selectionVars, isLoading, outputVars,
                    seedVars, pageOutline, formVars, effectsPending, req, historyVars,
                    overlap >>

ClockAdvances == ClockAdvancesTo(MaxPages)

GeneratePage == HandleGenerate(FALSE, {0})

\* a click on a candidate; a generation lies between two commits, so
\* Date.now() differs from the time of every earlier commit
SelectCandidate(max) ==
    /\ Len(pages) < max
    /\ \A i \in 1..Len(pages) : pages[i].pageId # [t |-> now]
    /\ \E i \in 1..Len(generatedImages) : HandleSelectImage(generatedImages[i])

CommitCandidate == SelectCandidate(MaxPages)

DeletePage ==
    \/ Idle /\ \E i \in 1..Len(pages) : HandleDeletePage(pages[i].pageId)
    \/ Idle /\ \E i \in 1..Len(pages) : RequestDeletePage(pages[i].pageId)
    \/ ConfirmDeletePage
    \/ CancelDelete

NextPages ==
    \/ RunEffects
    \/ DescribeFirstPanel
    \/ GeneratePage
    \/ GatherDone
    \/ AttemptResolves
    \/ SynthesisResolves
    \/ ClockAdvances
    \/ CommitCandidate
    \/ DeletePage

SpecPages == InitPages /\ [][NextPages]_vars

----------------------------------------------------------------------------
(* SpecCommit: generations and continuations from a page, up to the commit *)
(* of a candidate                                                          *)

WriteOutline == Idle /\ pageOutline = "" /\ SetPageOutline("outline")

ChooseSpread == Idle /\ SetPageMode(SPREAD)

ContinueFromPage == \E i \in 1..Len(pages) : HandleContinueFromPage(pages[i], {0})

ContextImageResolves == ContextImageLoads \/ ContextImageFails

PageOutcomes == Outcomes({2}, { Detail(<< T("y") >>, CAMERA_SHOTS[2], << >>) })

PageBackendResponds == \E o \in PageOutcomes : ContinuationReturns(o)

CommitClockAdvances == ClockAdvancesTo(MaxClock)

CommitOneCandidate == SelectCandidate(MaxClock + 1)

NextCommit ==
    \/ RunEffects
    \/ DescribeFirstPanel
    \/ WriteOutline
    \/ ChooseSpread
    \/ GeneratePage
    \/ ContinueFromPage
    \/ ContextImageResolves
    \/ PageBackendResponds
    \/ GatherDone
    \/ AttemptResolves
    \/ SynthesisResolves
    \/ CommitClockAdvances
    \/ CommitOneCandidate

SpecCommit == InitPages /\ [][NextCommit]_vars

----------------------------------------------------------------------------
(* Claims about the page list *)

PageCommitted == Len(pages') = Len(pages) + 1

\* C19: the selection of a candidate appends exactly one page, numbered one
\* more than the pages before it, holding the story and the prompt compiled
\* for the generation, the chosen candidate and the mode flag; afterwards
\* the scenes are blank and as many as the layout has panels, the page
\* outline is empty and the continuation context is cleared.
C19_CommitAppendsPageAndResets ==
    [][ PageCommitted
          => /\ \E pg \in Range(pages') : pages' = Append(pages, pg)
             /\ LET pg == pages'[Len(pages')]
                IN  /\ pg.pageNumber = Len(pages) + 1
                    /\ pg.finalGenerationPrompt = compileLog[2].prompt
                    /\ pg.userStoryText = FullStoryText(compileLog[2].inputs.scenes)
                    /\ Includes(generatedImages, pg.imageUrl)
                    /\ pg.mode = IF project.format = PAGE THEN pageMode ELSE SINGLE
             /\ Len(scenes') = CurrentLayout.panelCount
             /\ \A i \in 1..Len(scenes') : IsBlankScene(scenes'[i], now, i - 1)
             /\ pageOutline' = ""
             /\ continuationContext' = NoPage
      ]_vars

PageIds(pgs) == [ i \in 1..Len(pgs) |-> pgs[i].pageId ]

NumberedInOrder(pgs) == \A i \in 1..Len(pgs) : pgs[i].pageNumber = i

\* the pages from oldest to newest
InCreationOrder(pgs) ==
    \A i, j \in 1..Len(pgs) : i < j => pgs[i].pageId.t < pgs[j].pageId.t

\* C20: after every commit and every deletion the page numbers are 1..n in
\* list order and the pages stand in the order of their creation; a
\* deletion removes the page of the given id and nothing else.
C20_PageNumbersGapFree ==
    [][ pages' # pages
          => /\ NumberedInOrder(pages')
             /\ InCreationOrder(pages')
             /\ ~PageCommitted
                  => /\ deletionLog'.kind = "deletePage"
                     /\ PageIds(pages') =
                          SelectSeq(PageIds(pages),
                                    LAMBDA id : id # deletionLog'.id)
      ]_vars

\* the middle one of three pages was deleted
C20_Witness ==
    /\ deletionLog.kind = "deletePage"
    /\ deletionLog.count = 3
    /\ deletionLog.index = 2
    /\ Len(pages) = 2
    /\ pages[1].pageId.t < deletionLog.id.t
    /\ deletionLog.id.t < pages[2].pageId.t
    /\ pages[2].pageNumber = 2

----------------------------------------------------------------------------
(* SpecImport: the project creation screen and its file reads *)

\* App before a project exists; PageCreator is not mounted
InitImport ==
    /\ project = NoProject
    /\ characters = << >>
    /\ assets = << >>
    /\ relationships = << >>
    /\ pages = << >>
    /\ confirmModal = NoModal
    /\ continuationContext = NoPage
    /\ importer = NoImport
    /\ relationshipForm = NoForm
    /\ scenes = << >>
    /\ selectedLayout = LAYOUT_TEMPLATES[3].id
    /\ customLayoutConfig = << 1 >>
    /\ pageMode = SINGLE
    /\ colorMode = "color"
    /\ selectedCharIdsForContinuation = << >>
    /\ selectedAssetIdsForContinuation = << >>
    /\ isLoading = FALSE
    /\ isModalOpen = FALSE
    /\ generatedImages = << >>
    /\ finalPrompt = << >>
    /\ finalStory = << >>
    /\ seed = 0
    /\ isSeedLocked = FALSE
    /\ pageOutline = ""
    /\ effectsPending = {}
    /\ now = 0
    /\ req = NoRequest
    /\ overlap = NoRequest
    /\ resizeLog = NoResizeLog
    /\ compileLog = << NoLog, NoLog >>
    /\ deletionLog = NoLog
    /\ continuationLog = NoLog
    /\ synthesisLog = NoLog

PageProject == [format |-> PAGE, stylePrompt |-> "shonen-style"]
WebtoonProject == [format |-> WEBTOON, stylePrompt |-> "shonen-style"]

ImportDocuments ==
    { Unparseable,
      Document({"characters", "pages"}, NoProject,
               << CharacterTable.c1 >>, << >>, << ImportedPage >>, << >>),
      Document({"project"}, PageProject, << >>, << >>, << >>, << >>),
      Document({"project", "pages"}, WebtoonProject,
               << >>, << >>, << ImportedPage >>, << >>),
      Document({"project", "characters", "assets", "relationships"}, PageProject,
               << CharacterTable.c1, CharacterTable.c2 >>, << AssetTable.a1 >>,
               << >>, << Rel("r1", "c1", "a1") >>),
      Document({"project", "characters", "assets", "pages", "relationships"},
               WebtoonProject, << CharacterTable.c1 >>, << AssetTable.a2 >>,
               << ImportedPage >>, << Rel("r1", "c1", "a2") >>),
      Document({"project", "characters"}, PageProject,
               << CharacterTable.c2 >>, << >>, << >>, << >>),
      Document({"project", "assets"}, WebtoonProject,
               << >>, << AssetTable.a1 >>, << >>, << >>) }

ChooseFile == \E doc \in ImportDocuments : HandleFileChange(doc)

FileLoads == \E doc \in ImportDocuments : HandleImportProject(doc)

NextImport ==
    \/ ChooseFile
    \/ FileLoads

SpecImport == InitImport /\ [][NextImport]_vars

----------------------------------------------------------------------------
(* Claims about the import of a project *)

\* C21: when a read file is handed to the import, a file that does not
\* parse or has no project leaves project, characters, assets, pages and
\* relationships as they are and alerts; a file with a project replaces all
\* five, an array the file lacks becoming empty.
C21_ImportAllOrNothing ==
    [][ \A doc \in importer.pending :
          importer'.pending = importer.pending \ {doc}
            => IF ~doc.parses \/ "project" \notin doc.keys
               THEN /\ UNCHANGED appVars
                    /\ importer'.outcome = "alert"
               ELSE /\ project' = doc.project
                    /\ characters' = IF "characters" \in doc.keys
                                     THEN doc.characters ELSE << >>
                    /\ assets' = IF "assets" \in doc.keys THEN doc.assets ELSE << >>
                    /\ pages' = IF "pages" \in doc.keys THEN doc.pages ELSE << >>
                    /\ relationships' = IF "relationships" \in doc.keys
                                        THEN doc.relationships ELSE << >>
      ]_vars

\* a file with a project and pages but no characters was imported
C21_Witness ==
    /\ importer.outcome = "imported"
    /\ project = WebtoonProject
    /\ pages = << ImportedPage >>
    /\ characters = << >>
    /\ assets = << >>
    /\ relationships = << >>

----------------------------------------------------------------------------
(* SpecRel: the relationship form next to deletions of entities *)

InitRel ==
    Constructed(PAGE, << CharacterTable.c1, CharacterTable.c2 >>,
                << AssetTable.a1 >>, << Rel("r1", "c2", "a1") >>, << >>, 0)

ChooseEntity ==
    \E field \in {"entity1Id", "entity2Id"}, id \in EntityIds \cup {""} :
        SetFormField(field, id)

DescribeRelationship == SetFormField("description", "described")

EditRelationship == \E k \in 1..Len(relationships) : HandleEdit(relationships[k])

\* Date.now() differs from the time of every earlier submission
SubmitRelationship ==
    /\ \A k \in 1..Len(relationships) : relationships[k].id # RelIdAt(now)
    /\ HandleSubmit

DeleteRelationship ==
    \E k \in 1..Len(relationships) : HandleDeleteRelationship(relationships[k].id)

NextRel ==
    \/ RunEffects
    \/ ChooseEntity
    \/ DescribeRelationship
    \/ SubmitRelationship
    \/ EditRelationship
    \/ HandleCancelEdit
    \/ DeleteRelationship
    \/ DeleteEntity

SpecRel == InitRel /\ [][NextRel]_vars

----------------------------------------------------------------------------
(* Claims about relationships *)

\* C22: in every state both ends of every relationship are entities of the
\* registry.
C22_RelationshipEndsResolve ==
    \A k \in 1..Len(relationships) :
        /\ InRegistry(relationships[k].entity1Id)
        /\ InRegistry(relationships[k].entity2Id)

----------------------------------------------------------------------------
(* SpecSpread: page mode selections, commits and page deletions *)

DeleteAnyPage == Idle /\ \E i \in 1..Len(pages) : HandleDeletePage(pages[i].pageId)

NextSpread ==
    \/ RunEffects
    \/ DescribeFirstPanel
    \/ ChoosePageMode
    \/ GeneratePage
    \/ GatherDone
    \/ AttemptResolves
    \/ SynthesisResolves
    \/ CommitClockAdvances
    \/ CommitOneCandidate
    \/ DeleteAnyPage

SpecSpread == InitPages /\ [][NextSpread]_vars

\* C23: a page committed with mode spread is committed in a project of
\* format page and while at least one page exists; the first page of the
\* list is never created as a spread.
C23_SpreadNeedsFirstPage ==
    [][ (PageCommitted /\ pages'[Len(pages')].mode = SPREAD)
          => /\ project.format = PAGE
             /\ Len(pages) >= 1
             /\ pages'[Len(pages')].pageNumber # 1
      ]_vars

----------------------------------------------------------------------------
(* SpecOverlap: the three ways a request starts (the generate button, the  *)
(* auto-write button, the "continue" button of a page), next to a request  *)
(* that is still in flight                                                 *)

ContinueWhileInFlight ==
    \E i \in 1..Len(pages) : HandleContinueFromPageWhileInFlight(pages[i], {0})

OverlapContextImageResolves == OverlapContextImageLoads \/ OverlapContextImageFails

OverlapBackendResponds == \E o \in PageOutcomes : OverlapContinuationReturns(o)

OverlapAttemptResolves == OverlapAttemptReturns(1, TRUE) \/ OverlapAttemptReturns(2, TRUE)

OverlapSynthesisResolves ==
    \E result1, result2 \in ImageResults : OverlapSynthesisDone(result1, result2)

NextOverlap ==
    \/ RunEffects
    \/ DescribeFirstPanel
    \/ GeneratePage
    \/ AutoWrite
    \/ ContinueFromPage
    \/ ContextImageResolves
    \/ PageBackendResponds
    \/ GatherDone
    \/ AttemptResolves
    \/ SynthesisResolves
    \/ ContinueWhileInFlight
    \/ OverlapContextImageResolves
    \/ OverlapBackendResponds
    \/ OverlapGatherDone
    \/ OverlapAttemptResolves
    \/ OverlapSynthesisResolves
    \/ CommitClockAdvances
    \/ CommitOneCandidate

SpecOverlap == InitPages /\ [][NextOverlap]_vars

----------------------------------------------------------------------------
(* Claims about requests in flight *)

\* C28: at most one generation request is in flight at any time: while one
\* handleGenerate call is suspended no second one has started.
C28_AtMostOneRequest == req = NoRequest \/ overlap = NoRequest

\* C24: the prompt and the story text stored on a committed page are those
\* of the generation run that produced the candidates the page was chosen
\* from.
C24_PageKeepsItsRun ==
    [][ PageCommitted =>
          /\ pages'[Len(pages')].finalGenerationPrompt = synthesisLog.prompt
          /\ pages'[Len(pages')].userStoryText = synthesisLog.story
      ]_vars

----------------------------------------------------------------------------
(* Claims about the merge of a continuation *)

\* no effect is pending and no request is in flight
Quiescent ==
    /\ effectsPending = {}
    /\ req = NoRequest
    /\ overlap = NoRequest
    /\ ~isLoading

\* C25: in every quiescent state every id of a scene's characterIds and
\* assetIds and of the two continuation selection lists is the id of an
\* entity of the current registry.
C25_QuiescentListsInRegistry ==
    Quiescent =>
        /\ \A i \in 1..Len(scenes) :
              /\ \A k \in 1..Len(scenes[i].characterIds) :
                    HasCharacter(characters, scenes[i].characterIds[k])
              /\ \A k \in 1..Len(scenes[i].assetIds) :
                    HasAsset(assets, scenes[i].assetIds[k])
        /\ \A k \in 1..Len(selectedCharIdsForContinuation) :
              HasCharacter(characters, selectedCharIdsForContinuation[k])
        /\ \A k \in 1..Len(selectedAssetIdsForContinuation) :
              HasAsset(assets, selectedAssetIdsForContinuation[k])


\* C26: when a continuation is merged, every panel that had characters
\* assigned when the request was made has exactly those characters
\* afterwards.
C26_PresetCharactersKept ==
    [][ ContinuationMerged
          => LET before == continuationLog'.request.scenes
             IN  \A i \in 1..Len(before) :
                    before[i].characterIds # << >>
                      => /\ i <= Len(scenes')
                         /\ Range(scenes'[i].characterIds) = Range(before[i].characterIds)
      ]_vars


----------------------------------------------------------------------------
(* Claims about the gathering of the reference images *)

\* C27: a request that is gathering its reference images goes on to the
\* synthesis whether or not the image of one of its entities fails to
\* load: the gathering never ends the request.
C27_GatheringGoesOn ==
    [][ (req.pc = "gathering" /\ req' # req) => req'.pc = "synthesizing" ]_vars


----------------------------------------------------------------------------
(* SpecLive: every way a request ends, under the assumption that a promise *)
(* a request awaits settles                                                *)

\* a story for both panels with a character in them, or nothing at all
LiveOutcomes ==
    Outcomes({2}, { Detail(<< T("y") >>, CAMERA_SHOTS[2], << "Aria" >>) })
      \cup Outcomes({1}, { Detail(<< >>, CAMERA_SHOTS[2], << >>) })

LiveBackendResponds == \E o \in LiveOutcomes : ContinuationReturns(o)

\* the steps of a call: each is the settling of the promise the call is
\* suspended at
PromiseSettles ==
    \/ ContextImageResolves
    \/ LiveBackendResponds
    \/ GatherFails
    \/ AttemptResolves
    \/ SynthesisResolves
    \/ ProcessingFails

RequestStep == PromiseSettles \/ GatherDone

\* weak fairness of GatherDone, which is enabled exactly when a call is
\* suspended at Promise.all of the reference images
GatherSettles ==
    []<>(req.pc # "gathering") \/ []<><<GatherDone>>_vars

NextLive ==
    \/ RunEffects
    \/ DescribeFirstPanel
    \/ GeneratePage
    \/ AutoWrite
    \/ ContinueFromPage
    \/ RequestStep
    \/ CloseSelectionModal

SpecLive ==
    /\ InitPages
    /\ [][NextLive]_vars
    /\ WF_vars(PromiseSettles)
    /\ GatherSettles

----------------------------------------------------------------------------
(* Claims about the end of a request *)

\* C29: every request that is in flight eventually ends, and the loading
\* flag is cleared when it ends.
C29_RequestEndsAndClearsLoading ==
    (req # NoRequest \/ isLoading) ~> (req = NoRequest /\ ~isLoading)

\* a continuation whose response was merged has ended at the gathering of
\* its reference images without candidates
C29_Witness ==
    /\ req = NoRequest
    /\ overlap = NoRequest
    /\ ~isLoading
    /\ ~isModalOpen
    /\ \E i \in 1..Len(scenes) : scenes[i].characterIds # << >>
    /\ finalPrompt = << >>


\* C30: a continuation context that is set is eventually cleared, and a
\* continuation request that starts without a new press of a "continue"
\* button does not use a context page: it continues from the stories of all
\* pages.
C30_ContextUsedOnce ==
    /\ (continuationContext # NoPage) ~> (continuationContext = NoPage)
    /\ [][ (req = NoRequest /\ req' # NoRequest /\ req'.isContinuation
              /\ continuationContext' = continuationContext)
             => req'.continuationContext = NoPage ]_vars

====
